---- MODULE Spec2Model ----
(***************************************************************************)
(* Exchange-rate synchronisation engine of valutatrade_hub: the snapshot   *)
(* store (rates.json), the history log (exchange_rates.json), the          *)
(* synchroniser RatesUpdater.run_update and the file discipline of         *)
(* DatabaseManager.write_json_atomic / read_rates.                         *)
(***************************************************************************)
EXTENDS Integers, Sequences, FiniteSets, TLC

VARIABLES
    rates,      \* parsed content of data/rates.json
    history,    \* parsed content of data/exchange_rates.json (a list)
    clock,      \* wall clock, in whole seconds (iso_now_utc has second precision)
    log,        \* the calls made so far: arguments, outcome and files after each
    dir,        \* directory of data/: path -> inode number, 0 when the path is absent
    inode,      \* inode number -> content of that file
    active,     \* the processes that call write_snapshot concurrently
    wpc,        \* writer -> position inside write_snapshot / write_json_atomic
    wloc,       \* writer -> locals of write_snapshot (payload, document being written)
    rpc,        \* reader -> position inside read_rates
    rloc,       \* reader -> locals of read_rates (opened inode, observation)
    settings,   \* SettingsLoader._config of the process that owns CoreUseCases
    cache,      \* the TTL cache behind CoreUseCases._cached_rates
    sched,      \* run_periodic: position in its loop, its interval, its job
    stack,      \* the frames of a running _get_pair_rate call and its steps
    users,      \* parsed content of data/users.json (a list)
    portfolios, \* parsed content of data/portfolios.json (a list)
    wallet      \* a Wallet object: its currency code and its balance

seqvars == <<rates, history, clock, log>>
fsvars == <<dir, inode, active, wpc, wloc, rpc, rloc>>
rsvars == <<settings, cache>>
appvars == <<stack, users, portfolios, wallet>>
vars == <<rates, history, clock, log, dir, inode, active, wpc, wloc, rpc, rloc,
          settings, cache, sched, stack, users, portfolios, wallet>>

(***************************************************************************)
(* Bounds of the model.                                                    *)
(***************************************************************************)
MaxTime == 2
MaxCalls == 2
MaxDepth == 4
MaxBalance == 3

(***************************************************************************)
(* Values.                                                                 *)
(***************************************************************************)
Keys == {"BTC_USD", "EUR_USD"}
KeyOrder == <<"BTC_USD", "EUR_USD">>
RateValues == {1, 2}

\* A timestamp string.  form "Z" is what iso_now_utc / isoformat_dt print
\* (...T..:..:..Z), "naive" an ISO string without offset, "bad" a string
\* datetime.fromisoformat rejects, "null" the JSON null of a fresh snapshot.
Stamp(form, t) == [form |-> form, t |-> t]
Null == Stamp("null", 0)
ZStamps == {Stamp("Z", t) : t \in 1..MaxTime}

iso_now_utc(now) == Stamp("Z", now)

isoformat_dt(t) == Stamp("Z", t)

\* datetime.fromisoformat(s.replace("Z", "+00:00")): raises on a malformed
\* string, else a datetime that is offset-aware iff the string had an offset.
parse_dt(s) ==
    IF s.form = "Z" THEN [ok |-> TRUE, aware |-> TRUE, t |-> s.t]
    ELSE IF s.form = "naive" THEN [ok |-> TRUE, aware |-> FALSE, t |-> s.t]
    ELSE [ok |-> FALSE, aware |-> FALSE, t |-> 0]

RatePoint(r, u, s) == [rate |-> r, updated_at |-> u, source |-> s]

EmptySnapshot == [pairs |-> <<>>, last_refresh |-> Null]

\* Python's None, what read_json returns for a path that does not exist
None == [is_none |-> TRUE]

\* DatabaseManager.read_json: the parsed document, None for an absent file
read_json(exists, doc) == IF exists THEN doc ELSE None

\* read_rates handing on whatever read_json returned
read_rates_as_read(data) == data

\* DatabaseManager.read_rates, from what read_json returned: None and the
\* empty object are replaced by the empty snapshot, a missing "pairs" is set
\* to {}
read_rates(data) ==
    IF data = None \/ DOMAIN data = {} THEN EmptySnapshot
    ELSE IF "pairs" \notin DOMAIN data
    THEN [k \in (DOMAIN data) \cup {"pairs"} |->
            IF k = "pairs" THEN <<>> ELSE data[k]]
    ELSE data

\* Replaces with the comparison dropped: the incoming RatePoint always wins
ReplacesAlways(v, old) == TRUE

\* Replaces with >= in place of >
ReplacesNotOlder(v, old) ==
    LET pv == parse_dt(v.updated_at)
        po == parse_dt(old.updated_at)
    IN  IF ~pv.ok \/ ~po.ok THEN TRUE
        ELSE IF pv.aware # po.aware THEN TRUE
        ELSE pv.t >= po.t

\* The try block of write_snapshot: TRUE when cur_pairs[k] is assigned v, by
\* the comparison or by the except branch (a parse error, or the TypeError of
\* comparing an offset-naive with an offset-aware datetime).
Replaces(v, old) ==
    LET pv == parse_dt(v.updated_at)
        po == parse_dt(old.updated_at)
    IN  IF ~pv.ok \/ ~po.ok THEN TRUE
        ELSE IF pv.aware # po.aware THEN TRUE
        ELSE pv.t > po.t

\* write_snapshot whose except branch drops the stored entry instead of
\* replacing it
write_snapshot_drop_on_error(current, pairs, last_refresh) ==
    LET cur_pairs == current.pairs
        fails(k) == \/ ~parse_dt(pairs[k].updated_at).ok
                    \/ ~parse_dt(cur_pairs[k].updated_at).ok
                    \/ parse_dt(pairs[k].updated_at).aware
                         # parse_dt(cur_pairs[k].updated_at).aware
        dropped == {k \in (DOMAIN cur_pairs) \cap (DOMAIN pairs) : fails(k)}
        merged == [k \in ((DOMAIN cur_pairs) \cup (DOMAIN pairs)) \ dropped |->
                     IF k \notin DOMAIN pairs THEN cur_pairs[k]
                     ELSE IF k \notin DOMAIN cur_pairs THEN pairs[k]
                     ELSE IF parse_dt(pairs[k].updated_at).t
                               > parse_dt(cur_pairs[k].updated_at).t
                          THEN pairs[k]
                     ELSE cur_pairs[k]]
    IN  [pairs |-> merged, last_refresh |-> last_refresh]

\* write_snapshot that writes the payload over the whole document
write_snapshot_overwrite(current, pairs, last_refresh) ==
    [pairs |-> pairs, last_refresh |-> last_refresh]

\* RatesStorage.write_snapshot: the document written back to rates.json
write_snapshot(current, pairs, last_refresh) ==
    LET cur_pairs == current.pairs
        merged == [k \in (DOMAIN cur_pairs) \cup (DOMAIN pairs) |->
                     IF k \notin DOMAIN pairs THEN cur_pairs[k]
                     ELSE IF k \notin DOMAIN cur_pairs THEN pairs[k]
                     ELSE IF Replaces(pairs[k], cur_pairs[k]) THEN pairs[k]
                     ELSE cur_pairs[k]]
    IN  [pairs |-> merged, last_refresh |-> last_refresh]

\* append_history that overwrites a stored entry by the incoming entry of
\* the same id
append_history_upsert(hist, entries) ==
    LET existing_ids == {hist[i].id : i \in DOMAIN hist}
        latest(id) == entries[CHOOSE m \in DOMAIN entries :
                                /\ entries[m].id = id
                                /\ \A n \in DOMAIN entries :
                                       entries[n].id = id => n <= m]
    IN  [n \in DOMAIN hist |->
            IF \E m \in DOMAIN entries : entries[m].id = hist[n].id
            THEN latest(hist[n].id) ELSE hist[n]]
        \o SelectSeq(entries, LAMBDA e : e.id \notin existing_ids)

\* append_history without the id test
append_history_no_dedup(hist, entries) == hist \o entries

\* DatabaseManager.append_history: existing_ids is computed once, before the loop
append_history(hist, entries) ==
    LET existing_ids == {hist[i].id : i \in DOMAIN hist}
    IN  hist \o SelectSeq(entries, LAMBDA e : e.id \notin existing_ids)

(***************************************************************************)
(* RatesUpdater.run_update.  A client's fetch is given by its outcome:     *)
(* client (the class name), ok (FALSE when fetch_rates raised), error (the *)
(* exception text), rates (the returned dict) and meta (last_meta).        *)
(***************************************************************************)
\* dict.get(key, default)
Get(d, key, default) == IF key \in DOMAIN d THEN d[key] ELSE default

\* the history record run_update builds for one fetched rate; id is
\* f"{from_cur}_{to_cur}_{updated_at}"
HistoryEntry(pair, rate, updated_at, source) ==
    [id |-> <<pair, updated_at>>, pair |-> pair, rate |-> rate,
     timestamp |-> updated_at, source |-> source]

\* the order in which rates.items() yields the keys of a client's dict
ItemOrder(d) == SelectSeq(KeyOrder, LAMBDA k : k \in DOMAIN d)

\* the loop body with combined.setdefault(pair, ...) in place of the
\* assignment: the first client to return a pair keeps it
FetchOne_keep_first(acc, o, last_refresh) ==
    IF o.ok
    THEN LET name == o.client
             source == Get(o.meta, "source", name)
             updated_at == Get(o.meta, "timestamp", last_refresh)
             order == ItemOrder(o.rates)
             count == Len(order)
         IN  [invoked |-> Append(acc.invoked, o.client),
              combined |->
                 [k \in (DOMAIN acc.combined) \cup (DOMAIN o.rates) |->
                     IF k \in DOMAIN acc.combined THEN acc.combined[k]
                     ELSE RatePoint(o.rates[k], updated_at, source)],
              history_entries |->
                 acc.history_entries \o
                 [j \in 1..count |->
                     HistoryEntry(order[j], o.rates[order[j]], updated_at, source)],
              total |-> acc.total + count,
              errors |-> acc.errors,
              sources |->
                 [n \in (DOMAIN acc.sources) \cup {name} |->
                     IF n = name THEN [ok |-> TRUE, count |-> count]
                     ELSE acc.sources[n]]]
    ELSE [invoked |-> Append(acc.invoked, o.client),
          combined |-> acc.combined,
          history_entries |-> acc.history_entries,
          total |-> acc.total,
          errors |-> Append(acc.errors, <<o.client, o.error>>),
          sources |->
             [n \in (DOMAIN acc.sources) \cup {o.client} |->
                 IF n = o.client THEN [ok |-> FALSE, error |-> o.error]
                 ELSE acc.sources[n]]]

\* one iteration of the loop over self.clients; invoked lists the clients
\* whose fetch_rates has been called
FetchOne(acc, o, last_refresh) ==
    IF o.ok
    THEN LET name == o.client
             source == Get(o.meta, "source", name)
             updated_at == Get(o.meta, "timestamp", last_refresh)
             order == ItemOrder(o.rates)
             count == Len(order)
         IN  [invoked |-> Append(acc.invoked, o.client),
              combined |->
                 [k \in (DOMAIN acc.combined) \cup (DOMAIN o.rates) |->
                     IF k \in DOMAIN o.rates
                     THEN RatePoint(o.rates[k], updated_at, source)
                     ELSE acc.combined[k]],
              history_entries |->
                 acc.history_entries \o
                 [j \in 1..count |->
                     HistoryEntry(order[j], o.rates[order[j]], updated_at, source)],
              total |-> acc.total + count,
              errors |-> acc.errors,
              sources |->
                 [n \in (DOMAIN acc.sources) \cup {name} |->
                     IF n = name THEN [ok |-> TRUE, count |-> count]
                     ELSE acc.sources[n]]]
    ELSE [invoked |-> Append(acc.invoked, o.client),
          combined |-> acc.combined,
          history_entries |-> acc.history_entries,
          total |-> acc.total,
          errors |-> Append(acc.errors, <<o.client, o.error>>),
          sources |->
             [n \in (DOMAIN acc.sources) \cup {o.client} |->
                 IF n = o.client THEN [ok |-> FALSE, error |-> o.error]
                 ELSE acc.sources[n]]]

\* the locals of run_update before the loop
NoneFetched ==
    [invoked |-> <<>>, combined |-> <<>>, history_entries |-> <<>>,
     total |-> 0, errors |-> <<>>, sources |-> <<>>]

\* the loop with the try/except around it instead of inside it: the first
\* client that raises ends the loop
RECURSIVE Fetched_stop_at_error(_, _, _)
Fetched_stop_at_error(outs, n, last_refresh) ==
    IF n = 0 THEN NoneFetched
    ELSE LET acc == Fetched_stop_at_error(outs, n - 1, last_refresh)
         IN  IF acc.errors # <<>> THEN acc
             ELSE FetchOne(acc, outs[n], last_refresh)

\* the locals of run_update after the first n clients
RECURSIVE Fetched(_, _, _)
Fetched(outs, n, last_refresh) ==
    IF n = 0 THEN NoneFetched
    ELSE FetchOne(Fetched(outs, n - 1, last_refresh), outs[n], last_refresh)

\* the report with ok telling only that rates were written
Report_ok_when_written(acc, last_refresh) ==
    [ok |-> acc.total > 0, total |-> acc.total,
     last_refresh |-> last_refresh, errors |-> acc.errors,
     sources |-> acc.sources]

\* the dict run_update returns, from either of its two return statements
Report(acc, last_refresh) ==
    [ok |-> acc.errors = <<>>, total |-> acc.total,
     last_refresh |-> last_refresh, errors |-> acc.errors,
     sources |-> acc.sources]

Raised(cur_rates, cur_history) ==
    [raised |-> TRUE, report |-> <<>>, rates |-> cur_rates,
     history |-> cur_history]

\* run_update that treats any client error as fatal
run_update_abort_on_error(outs, last_refresh, cur_rates, cur_history) ==
    LET acc == Fetched(outs, Len(outs), last_refresh)
    IN  IF acc.total = 0 \/ acc.errors # <<>>
        THEN Raised(cur_rates, cur_history)
        ELSE [raised |-> FALSE, report |-> Report(acc, last_refresh),
              rates |-> write_snapshot(read_rates(cur_rates), acc.combined,
                                       last_refresh),
              history |-> append_history(cur_history, acc.history_entries)]

\* run_update that writes the snapshot before it tests total
run_update_write_first(outs, last_refresh, cur_rates, cur_history) ==
    LET acc == Fetched(outs, Len(outs), last_refresh)
        written == write_snapshot(read_rates(cur_rates), acc.combined,
                                  last_refresh)
    IN  IF acc.total = 0
        THEN Raised(written, cur_history)
        ELSE [raised |-> FALSE, report |-> Report(acc, last_refresh),
              rates |-> written,
              history |-> append_history(cur_history, acc.history_entries)]

\* RatesUpdater.run_update: whether it raised, the report it returned and the
\* two files after it
run_update(outs, last_refresh, cur_rates, cur_history) ==
    LET acc == Fetched(outs, Len(outs), last_refresh)
    IN  IF acc.total = 0
        THEN Raised(cur_rates, cur_history)
        ELSE [raised |-> FALSE, report |-> Report(acc, last_refresh),
              rates |-> write_snapshot(read_rates(cur_rates), acc.combined,
                                       last_refresh),
              history |-> append_history(cur_history, acc.history_entries)]

\* What fetch_rates of the two deployed clients can do at second `now`.
\* CoinGeckoClient stamps its result with the time of the fetch,
\* ExchangeRateApiClient with the provider's time_last_update_utc.
RateMaps(keys) == UNION {[D -> RateValues] : D \in SUBSET keys}

Failure(name, error) ==
    [client |-> name, ok |-> FALSE, error |-> error, rates |-> <<>>,
     meta |-> <<>>]

Fetch(name, source, r, t) ==
    [client |-> name, ok |-> TRUE, error |-> "", rates |-> r,
     meta |-> [source |-> source, timestamp |-> isoformat_dt(t)]]

CoinGeckoOutcomes(now) ==
    {Failure("CoinGeckoClient", "CoinGecko: 429 Too Many Requests")}
    \cup {Fetch("CoinGeckoClient", "CoinGecko", r, now) :
            r \in RateMaps({"BTC_USD"})}

ExchangeRateOutcomes(now) ==
    {Failure("ExchangeRateApiClient", "ExchangeRate-API key is missing")}
    \cup {Fetch("ExchangeRateApiClient", "ExchangeRate-API", r, t) :
            r \in RateMaps({"EUR_USD"}), t \in 1..now}

\* the client lists _cmd_update_rates and _try_refresh_rates build
ClientRuns(now) ==
    {<<a, b>> : a \in CoinGeckoOutcomes(now), b \in ExchangeRateOutcomes(now)}
    \cup {<<a>> : a \in CoinGeckoOutcomes(now)}
    \cup {<<b>> : b \in ExchangeRateOutcomes(now)}

(***************************************************************************)
(* The log of calls.  log[1] is the state the calls start from; log[i],    *)
(* i > 1, records one completed call and both files after it.              *)
(***************************************************************************)
Start(r, h) ==
    [op |-> "start", arg |-> <<>>, res |-> <<>>, rates |-> r, history |-> h]

Call(op, arg, res, r, h) ==
    [op |-> op, arg |-> arg, res |-> res, rates |-> r, history |-> h]

Calls == 2..Len(log)

\* the files before call i
RatesBefore(i) == log[i - 1].rates

HistoryBefore(i) == log[i - 1].history

(***************************************************************************)
(* Files.  A file's content is empty (just created or truncated), the full *)
(* JSON text of a document, or garbled (one text written over another).    *)
(***************************************************************************)
Writers == {"w1", "w2"}
Readers == {"r1", "r2"}

RatesPath == "rates.json"

\* path.with_suffix(path.suffix + ".tmp") written over the file itself
tmp_in_place(path) == path

\* path.with_suffix(path.suffix + ".tmp") in write_json_atomic
tmp_of(path) == IF path = "rates.json" THEN "rates.json.tmp" ELSE path

EmptyFile == [state |-> "empty", doc |-> EmptySnapshot]
Full(doc) == [state |-> "full", doc |-> doc]
Garbled == [state |-> "garbled", doc |-> EmptySnapshot]

NoLocals ==
    [pairs |-> <<>>, last_refresh |-> Null, doc |-> EmptySnapshot, fd |-> 0,
     calls |-> 0]

NoRead == [fd |-> 0, obs |-> EmptyFile, seen |-> {}]

\* The data directory as DatabaseManager._ensure_files leaves it: rates.json
\* holds the empty snapshot, no temporary file exists, nobody reads or writes.
InitFiles ==
    /\ dir = [p \in {"rates.json", "rates.json.tmp"} |->
                IF p = "rates.json" THEN 1 ELSE 0]
    /\ inode = <<Full(EmptySnapshot)>>
    /\ wpc = [w \in Writers |-> "idle"]
    /\ wloc = [w \in Writers |-> NoLocals]
    /\ rpc = [r \in Readers |-> "idle"]
    /\ rloc = [r \in Readers |-> NoRead]

(***************************************************************************)
(* The resolver's process state: its settings and the TTL cache that       *)
(* CoreUseCases.__init__ builds around DatabaseManager.read_rates.         *)
(***************************************************************************)
Max(a, b) == IF a >= b THEN a ELSE b

\* int(self.settings.get("rates_ttl_seconds", 300))
rates_ttl_seconds(cfg) == Get(cfg, "rates_ttl_seconds", 300)

\* make_ttl_cache(ttl_seconds): the closure's ttl and its empty cache dict
make_ttl_cache(ttl_seconds) ==
    [ttl |-> Max(0, ttl_seconds), has |-> FALSE, ts |-> 0,
     val |-> EmptySnapshot]

\* CoreUseCases._build_rates_reader
build_rates_reader(ttl) == make_ttl_cache(Max(1, ttl))

\* a process without a [tool.valutatrade] table in pyproject.toml
InitResolver ==
    /\ settings = <<>>
    /\ cache = build_rates_reader(rates_ttl_seconds(settings))

(***************************************************************************)
(* run_periodic before it is called: no loop runs, no job is in progress.  *)
(***************************************************************************)
NoScheduler ==
    [pc |-> "off", interval |-> 0, in_progress |-> 0, runs |-> 0,
     started_at |-> 0, ended_at |-> 0, prev_ended_at |-> 0,
     outcome |-> "none", prev_outcome |-> "none", slept_at |-> 0,
     slept |-> 0]

InitScheduler == sched = NoScheduler

(***************************************************************************)
(* The account side of the core before it is used: no _get_pair_rate call  *)
(* is running, users.json and portfolios.json hold [] as _ensure_files     *)
(* writes them, and no Wallet object is being driven.                      *)
(***************************************************************************)
NoStack == [frames |-> <<>>, steps |-> 0]

NoWallet == [currency_code |-> "", balance |-> 0]

InitApp ==
    /\ stack = NoStack
    /\ users = <<>>
    /\ portfolios = <<>>
    /\ wallet = NoWallet

(***************************************************************************)
(* SpecStore: RatesStorage.write_snapshot called directly, from any stored *)
(* snapshot, with any payload.                                             *)
(***************************************************************************)
\* RatePoints a caller may pass or a stored document may hold for key k
StorePoints(k) ==
    IF k = "BTC_USD"
    THEN {RatePoint(r, u, "manual") : r \in RateValues, u \in ZStamps}
         \cup {RatePoint(1, Stamp("naive", 1), "manual"),
               RatePoint(1, Stamp("bad", 0), "manual")}
    ELSE {RatePoint(r, Stamp("Z", 1), "manual") : r \in RateValues}

PairMaps ==
    UNION {{f \in [D -> UNION {StorePoints(k) : k \in D}] :
              \A k \in D : f[k] \in StorePoints(k)} : D \in SUBSET Keys}

RefreshArgs == {Stamp("Z", 1)}

InitStore ==
    /\ rates \in {[pairs |-> p, last_refresh |-> l] :
                    p \in PairMaps, l \in {Null} \cup RefreshArgs}
    /\ history = <<>>
    /\ clock = 1
    /\ log = <<Start(rates, history)>>
    /\ active = {}
    /\ InitFiles
    /\ InitScheduler
    /\ InitApp
    /\ InitResolver

WriteSnapshot(pairs, last_refresh) ==
    /\ Len(log) <= MaxCalls
    /\ rates' = write_snapshot(read_rates(rates), pairs, last_refresh)
    /\ log' = Append(log, Call("write_snapshot",
                               [pairs |-> pairs, last_refresh |-> last_refresh],
                               [raised |-> FALSE], rates', history))
    /\ UNCHANGED <<history, clock, fsvars, rsvars, sched, appvars>>

NextStore ==
    \E pairs \in PairMaps, last_refresh \in RefreshArgs :
        WriteSnapshot(pairs, last_refresh)

SpecStore == InitStore /\ [][NextStore]_vars

(***************************************************************************)
(* Claims about write_snapshot, checked under SpecStore.                   *)
(***************************************************************************)
IsWrite(i) == log[i].op = "write_snapshot"

\* both timestamps parse, can be compared, and a's is the earlier one
Earlier(a, b) ==
    /\ a.updated_at.form \in {"Z", "naive"}
    /\ b.updated_at.form = a.updated_at.form
    /\ a.updated_at.t < b.updated_at.t

\* calls i and i+1 both write key k, which the snapshot before call i lacks
WritesTwice(i, k) ==
    /\ i \in Calls /\ i + 1 \in Calls
    /\ IsWrite(i) /\ IsWrite(i + 1)
    /\ k \notin DOMAIN RatesBefore(i).pairs
    /\ k \in DOMAIN log[i].arg.pairs
    /\ k \in DOMAIN log[i + 1].arg.pairs

MergeIdempotent ==
    \A i \in Calls :
        (i + 1 \in Calls /\ IsWrite(i) /\ IsWrite(i + 1)
            /\ log[i + 1].arg = log[i].arg)
        => log[i + 1].rates = log[i].rates

\* a payload applied twice to a snapshot it changed, part of it rejected
IdempotentWitness ==
    \E i \in Calls :
        /\ i + 1 \in Calls /\ IsWrite(i) /\ IsWrite(i + 1)
        /\ log[i + 1].arg = log[i].arg
        /\ log[i].rates # RatesBefore(i)
        /\ \E k \in DOMAIN log[i].arg.pairs :
               /\ k \in DOMAIN RatesBefore(i).pairs
               /\ log[i].rates.pairs[k] # log[i].arg.pairs[k]
        /\ rates = log[i].rates

\* C9: the merge rule per key.  After write_snapshot, a payload key that was
\* absent holds the incoming RatePoint; a key that was present holds the
\* incoming RatePoint if a timestamp does not parse or the two cannot be
\* compared, or if the incoming one is strictly newer, and holds the stored
\* RatePoint otherwise (equal timestamps included).
MergeRule ==
    \A i \in Calls : IsWrite(i) =>
        \A k \in DOMAIN log[i].arg.pairs :
            LET v == log[i].arg.pairs[k]
                before == RatesBefore(i).pairs
                after == log[i].rates.pairs
            IN  /\ k \in DOMAIN after
                /\ k \notin DOMAIN before => after[k] = v
                /\ k \in DOMAIN before =>
                     LET old == before[k]
                         fails == \/ v.updated_at.form \notin {"Z", "naive"}
                                  \/ old.updated_at.form \notin {"Z", "naive"}
                                  \/ v.updated_at.form # old.updated_at.form
                     IN  /\ fails => after[k] = v
                         /\ (~fails /\ v.updated_at.t > old.updated_at.t)
                               => after[k] = v
                         /\ (~fails /\ v.updated_at.t <= old.updated_at.t)
                               => after[k] = old

\* an equal timestamp with another rate was kept out, and in another key's
\* slot of the same log a failed comparison let the incoming RatePoint in
MergeRuleWitness ==
    \E i \in Calls : \E k \in Keys :
        /\ IsWrite(i)
        /\ k \in DOMAIN log[i].arg.pairs
        /\ k \in DOMAIN RatesBefore(i).pairs
        /\ log[i].arg.pairs[k].updated_at = RatesBefore(i).pairs[k].updated_at
        /\ log[i].arg.pairs[k].updated_at.form = "Z"
        /\ log[i].arg.pairs[k].rate # RatesBefore(i).pairs[k].rate
        /\ log[i].rates.pairs[k] = RatesBefore(i).pairs[k]

\* every updated_at of a map of RatePoints is one parse_dt accepts
Parseable(pairs) == \A k \in DOMAIN pairs : parse_dt(pairs[k].updated_at).ok

\* C31: per-pair timestamps never go backwards.  Across a write_snapshot call
\* whose stored and incoming timestamps all parse, every key stored before
\* the call is stored after it with an updated_at that is not earlier.
TimestampsNonDecreasing ==
    \A i \in Calls :
        (IsWrite(i) /\ Parseable(RatesBefore(i).pairs)
                    /\ Parseable(log[i].arg.pairs))
        => \A k \in DOMAIN RatesBefore(i).pairs :
               /\ k \in DOMAIN log[i].rates.pairs
               /\ parse_dt(log[i].rates.pairs[k].updated_at).t
                     >= parse_dt(RatesBefore(i).pairs[k].updated_at).t

(***************************************************************************)
(* Spec: run_update called again and again, the clock moving on between    *)
(* calls, each client succeeding or failing as it may.                     *)
(***************************************************************************)
Init ==
    /\ rates = EmptySnapshot
    /\ history = <<>>
    /\ clock = 1
    /\ log = <<Start(rates, history)>>
    /\ active = {}
    /\ InitFiles
    /\ InitScheduler
    /\ InitApp
    /\ InitResolver

RunUpdate(now, outs) ==
    /\ Len(log) <= MaxCalls
    /\ LET last_refresh == iso_now_utc(now)
           r == run_update(outs, last_refresh, rates, history)
       IN  /\ rates' = r.rates
           /\ history' = r.history
           /\ log' = Append(log, Call("run_update",
                                      [outs |-> outs, last_refresh |-> last_refresh],
                                      [raised |-> r.raised, report |-> r.report,
                                       locals |-> Fetched(outs, Len(outs),
                                                          last_refresh)],
                                      r.rates, r.history))
    /\ clock' = now
    /\ UNCHANGED <<fsvars, rsvars, sched, appvars>>

Next ==
    \E now \in {clock, clock + 1} \cap (1..MaxTime) :
        \E outs \in ClientRuns(now) : RunUpdate(now, outs)

Spec == Init /\ [][Next]_vars

(***************************************************************************)
(* Claims about run_update, checked under Spec.                            *)
(***************************************************************************)
IsRun(i) == log[i].op = "run_update"

Outs(i) == log[i].arg.outs

Succeeded(i) == {j \in DOMAIN Outs(i) : Outs(i)[j].ok}

FailedClients(i) == {j \in DOMAIN Outs(i) : ~Outs(i)[j].ok}

\* the number of rates the successful clients of call i returned
RECURSIVE RatesReturned(_, _)
RatesReturned(i, n) ==
    IF n = 0 THEN 0
    ELSE RatesReturned(i, n - 1)
         + (IF Outs(i)[n].ok THEN Cardinality(DOMAIN Outs(i)[n].rates) ELSE 0)

FetchedKeys(i) == UNION {DOMAIN Outs(i)[j].rates : j \in Succeeded(i)}

\* the RatePoint client j of call i fetched for key k
Fetched_at(i, j, k) ==
    LET o == Outs(i)[j]
    IN  RatePoint(o.rates[k],
                  IF "timestamp" \in DOMAIN o.meta THEN o.meta.timestamp
                  ELSE log[i].arg.last_refresh,
                  IF "source" \in DOMAIN o.meta THEN o.meta.source
                  ELSE o.client)

\* the last client of call i, in configured order, that returned key k
LastProvider(i, k) ==
    CHOOSE j \in Succeeded(i) :
        /\ k \in DOMAIN Outs(i)[j].rates
        /\ \A m \in Succeeded(i) : k \in DOMAIN Outs(i)[m].rates => m <= j

IsPartialFailure(i) ==
    /\ IsRun(i)
    /\ \E j \in Succeeded(i) : Outs(i)[j].rates # <<>>
    /\ FailedClients(i) # {}

\* C3: partial failure.  A run_update in which a client returned a non-empty
\* rate map and another raised does not raise; its report has ok = FALSE,
\* total = the number of rates the successful clients returned, a sources
\* entry {ok: FALSE, error} per failed client and {ok: TRUE, count} per
\* successful one; and every fetched key is in the persisted snapshot, with
\* the fetched RatePoint unless the stored one was at least as new.
PartialFailure ==
    \A i \in Calls : IsPartialFailure(i) =>
        LET rep == log[i].res.report
            before == RatesBefore(i).pairs
            after == log[i].rates.pairs
        IN  /\ ~log[i].res.raised
            /\ rep.ok = FALSE
            /\ rep.total = RatesReturned(i, Len(Outs(i)))
            /\ Len(rep.errors) = Cardinality(FailedClients(i))
            /\ \A j \in FailedClients(i) :
                   /\ Outs(i)[j].client \in DOMAIN rep.sources
                   /\ ~rep.sources[Outs(i)[j].client].ok
                   /\ rep.sources[Outs(i)[j].client].error = Outs(i)[j].error
            /\ \A j \in Succeeded(i) :
                   /\ Outs(i)[j].client \in DOMAIN rep.sources
                   /\ rep.sources[Outs(i)[j].client].ok
                   /\ rep.sources[Outs(i)[j].client].count
                        = Cardinality(DOMAIN Outs(i)[j].rates)
            /\ \A k \in FetchedKeys(i) :
                   LET v == Fetched_at(i, LastProvider(i, k), k)
                   IN  /\ k \in DOMAIN after
                       /\ k \notin DOMAIN before => after[k] = v
                       /\ k \in DOMAIN before =>
                            after[k] = IF v.updated_at.t > before[k].updated_at.t
                                       THEN v ELSE before[k]
            /\ log[i].rates.last_refresh = rep.last_refresh

\* a run with one failed client replaced a stored RatePoint by a newer one
PartialFailureWitness ==
    \E i \in Calls : \E k \in Keys :
        /\ IsPartialFailure(i)
        /\ ~log[i].res.raised
        /\ ~log[i].res.report.ok
        /\ k \in FetchedKeys(i)
        /\ k \in DOMAIN RatesBefore(i).pairs
        /\ rates.pairs[k] # RatesBefore(i).pairs[k]
        /\ i = Len(log)

\* C4: total failure.  A run_update in which the fetched rates number 0
\* (every client raised, or those that did not returned nothing) raises, and
\* rates.json (pairs and last_refresh) and the history file are what they
\* were before the call.
TotalFailure ==
    \A i \in Calls :
        (IsRun(i) /\ RatesReturned(i, Len(Outs(i))) = 0) =>
            /\ log[i].res.raised
            /\ log[i].rates = RatesBefore(i)
            /\ log[i].history = HistoryBefore(i)

\* every client raised, a second later than the refresh the snapshot records
TotalFailureWitness ==
    \E i \in Calls :
        /\ IsRun(i)
        /\ Len(Outs(i)) = 2
        /\ Succeeded(i) = {}
        /\ log[i].res.raised
        /\ RatesBefore(i).pairs # <<>>
        /\ HistoryBefore(i) # <<>>
        /\ RatesBefore(i).last_refresh # log[i].arg.last_refresh
        /\ rates = RatesBefore(i)

\* the ids of the history entries call i passes to append_history
BatchIds(i) ==
    UNION {{<<k, Fetched_at(i, j, k).updated_at>> : k \in DOMAIN Outs(i)[j].rates}
             : j \in Succeeded(i)}

IdsOf(hist) == {hist[n].id : n \in DOMAIN hist}

\* C6: appending known ids is a no-op.  A run_update whose history entries
\* all carry ids the history already holds leaves the history unchanged; in
\* particular a run_update that repeats the clients' results (pairs and
\* provider timestamps) of the run before it leaves the history as that run
\* left it.
KnownIdsNoOp ==
    \A i \in Calls :
        /\ (IsRun(i) /\ ~log[i].res.raised
               /\ BatchIds(i) \subseteq IdsOf(HistoryBefore(i)))
           => log[i].history = HistoryBefore(i)
        /\ (i + 1 \in Calls /\ IsRun(i) /\ IsRun(i + 1)
               /\ ~log[i].res.raised /\ Outs(i + 1) = Outs(i))
           => log[i + 1].history = log[i].history

\* the same two clients returned the same two rates twice
KnownIdsWitness ==
    \E i \in Calls :
        /\ i + 1 \in Calls /\ IsRun(i) /\ IsRun(i + 1)
        /\ ~log[i].res.raised
        /\ Outs(i + 1) = Outs(i)
        /\ Cardinality(BatchIds(i)) = 2
        /\ Len(history) = 2

\* C10: merge frame.  After run_update, raised or not, every stored pair
\* whose key no successful client returned is still stored with the same
\* rate, updated_at and source; so are the pairs of a client that failed.
MergeFrame ==
    \A i \in Calls : IsRun(i) =>
        \A k \in DOMAIN RatesBefore(i).pairs :
            k \notin FetchedKeys(i) =>
                /\ k \in DOMAIN log[i].rates.pairs
                /\ log[i].rates.pairs[k] = RatesBefore(i).pairs[k]

\* ExchangeRateApiClient failed, its stored pair stayed, CoinGecko's pair
\* was written
MergeFrameWitness ==
    \E i \in Calls :
        /\ IsPartialFailure(i)
        /\ FetchedKeys(i) = {"BTC_USD"}
        /\ "EUR_USD" \in DOMAIN RatesBefore(i).pairs
        /\ "EUR_USD" \in DOMAIN rates.pairs
        /\ rates.pairs["EUR_USD"] = RatesBefore(i).pairs["EUR_USD"]
        /\ rates.pairs # RatesBefore(i).pairs
        /\ i = Len(log)

\* C11: failure isolation.  In one run_update fetch_rates is called on every
\* configured client exactly once and in the configured order, whichever of
\* them raised; each exception is recorded in errors and in sources under
\* the client's name, and every client that returned, earlier or later than
\* a failed one, has its count in sources and its pairs in the combined map.
FailureIsolation ==
    \A i \in Calls : IsRun(i) =>
        LET acc == log[i].res.locals
        IN  /\ acc.invoked = [j \in DOMAIN Outs(i) |-> Outs(i)[j].client]
            /\ Len(acc.errors) = Cardinality(FailedClients(i))
            /\ \A j \in FailedClients(i) :
                   /\ \E n \in DOMAIN acc.errors :
                          acc.errors[n] = <<Outs(i)[j].client, Outs(i)[j].error>>
                   /\ Outs(i)[j].client \in DOMAIN acc.sources
                   /\ acc.sources[Outs(i)[j].client]
                        = [ok |-> FALSE, error |-> Outs(i)[j].error]
            /\ \A j \in Succeeded(i) :
                   /\ Outs(i)[j].client \in DOMAIN acc.sources
                   /\ acc.sources[Outs(i)[j].client]
                        = [ok |-> TRUE,
                           count |-> Cardinality(DOMAIN Outs(i)[j].rates)]
                   /\ DOMAIN Outs(i)[j].rates \subseteq DOMAIN acc.combined

\* the first of two clients raised, the second was still called and its
\* pair was written
FailureIsolationWitness ==
    \E i \in Calls :
        /\ IsRun(i)
        /\ Len(Outs(i)) = 2
        /\ ~Outs(i)[1].ok
        /\ Outs(i)[2].ok
        /\ Len(log[i].res.locals.invoked) = 2
        /\ "EUR_USD" \in DOMAIN log[i].res.locals.combined
        /\ "EUR_USD" \in DOMAIN log[i].rates.pairs
        /\ "EUR_USD" \notin DOMAIN RatesBefore(i).pairs

\* the messages run_update builds for the clients of call i that raised, in
\* the order of the clients
RECURSIVE ErrorsOf(_, _)
ErrorsOf(i, n) ==
    IF n = 0 THEN <<>>
    ELSE IF Outs(i)[n].ok THEN ErrorsOf(i, n - 1)
    ELSE Append(ErrorsOf(i, n - 1), <<Outs(i)[n].client, Outs(i)[n].error>>)

\* C22: report success flag.  A run_update that returns has ok = TRUE in
\* its report if and only if no client raised; errors holds one message per
\* client that raised, in the order of the clients, and none else; total is
\* the sum of the counts of the clients that returned.
ReportFlag ==
    \A i \in Calls : (IsRun(i) /\ ~log[i].res.raised) =>
        LET rep == log[i].res.report
        IN  /\ rep.ok <=> FailedClients(i) = {}
            /\ Len(rep.errors) = Cardinality(FailedClients(i))
            /\ rep.errors = ErrorsOf(i, Len(Outs(i)))
            /\ rep.total = RatesReturned(i, Len(Outs(i)))
            /\ rep.total > 0

\* the first run returned ok = TRUE with total 2, the next one ok = FALSE
\* with total 1 and the one message of the client that raised
ReportFlagWitness ==
    /\ Len(log) = 3
    /\ IsRun(2) /\ IsRun(3)
    /\ ~log[2].res.raised /\ ~log[3].res.raised
    /\ log[2].res.report.ok
    /\ log[2].res.report.total = 2
    /\ log[2].res.report.errors = <<>>
    /\ ~log[3].res.report.ok
    /\ log[3].res.report.total = 1
    /\ Len(log[3].res.report.errors) = 1
    /\ log[3].res.report.errors[1][1] = "ExchangeRateApiClient"

(***************************************************************************)
(* SpecStamp: run_update with the time its fetches take.  The run is       *)
(* entered at second `start` and its loop ends at second `end`; a client   *)
(* with last_meta stamps its rates with the time of its fetch, a client    *)
(* without last_meta leaves the stamping to run_update.                    *)
(***************************************************************************)
\* fetch_rates of a BaseApiClient that sets no last_meta
PlainOutcomes ==
    {Failure("PlainClient", "timed out")}
    \cup {[client |-> "PlainClient", ok |-> TRUE, error |-> "", rates |-> r,
           meta |-> <<>>] : r \in RateMaps({"EUR_USD"}) \ {<<>>}}

TimedRuns(start, end) ==
    {<<a, b>> : a \in UNION {CoinGeckoOutcomes(t) : t \in start..end},
                b \in PlainOutcomes}

\* last_refresh read from the clock after the loop over the clients
last_refresh_after_loop(start, end) == iso_now_utc(end)

\* last_refresh = iso_now_utc(), the statement before the loop
last_refresh_of_run(start, end) == iso_now_utc(start)

TimedUpdate(start, end, outs) ==
    /\ Len(log) <= MaxCalls
    /\ LET last_refresh == last_refresh_of_run(start, end)
           r == run_update(outs, last_refresh, rates, history)
       IN  /\ rates' = r.rates
           /\ history' = r.history
           /\ log' = Append(log, Call("run_update",
                                      [outs |-> outs, last_refresh |-> last_refresh,
                                       start |-> start, end |-> end],
                                      [raised |-> r.raised, report |-> r.report,
                                       locals |-> Fetched(outs, Len(outs),
                                                          last_refresh)],
                                      r.rates, r.history))
    /\ clock' = end
    /\ UNCHANGED <<fsvars, rsvars, sched, appvars>>

NextStamp ==
    \E start \in {clock, clock + 1} \cap (1..MaxTime) :
        \E end \in start..MaxTime :
            \E outs \in TimedRuns(start, end) : TimedUpdate(start, end, outs)

SpecStamp == Init /\ [][NextStamp]_vars

\* the timestamp the rates of client j of call i are to carry
StampOf(i, j) ==
    IF "timestamp" \in DOMAIN Outs(i)[j].meta THEN Outs(i)[j].meta.timestamp
    ELSE iso_now_utc(log[i].arg.start)

\* C23: single run timestamp.  last_refresh of a run_update is the time at
\* which the run was entered, before any fetch; every RatePoint of the
\* combined map and every HistoryEntry of the run carries the timestamp of
\* its client's last_meta when there is one and that last_refresh
\* otherwise; the report returned and the snapshot written carry that
\* last_refresh.
SingleRunStamp ==
    \A i \in Calls : IsRun(i) =>
        LET acc == log[i].res.locals
            entered == iso_now_utc(log[i].arg.start)
        IN  /\ \A k \in FetchedKeys(i) :
                   acc.combined[k].updated_at = StampOf(i, LastProvider(i, k))
            /\ \A n \in DOMAIN acc.history_entries :
                   \E j \in Succeeded(i) :
                       /\ acc.history_entries[n].pair \in DOMAIN Outs(i)[j].rates
                       /\ acc.history_entries[n].timestamp = StampOf(i, j)
            /\ Len(acc.history_entries) = RatesReturned(i, Len(Outs(i)))
            /\ ~log[i].res.raised =>
                   /\ log[i].res.report.last_refresh = entered
                   /\ log[i].rates.last_refresh = entered

\* a run entered at second 1 whose CoinGecko fetch was stamped at second 2:
\* BTC_USD carries 2, the pair of the client without last_meta carries 1,
\* and so do the report and the snapshot
SingleRunStampWitness ==
    \E i \in Calls :
        /\ IsRun(i)
        /\ log[i].arg.start = 1
        /\ log[i].arg.end = 2
        /\ Succeeded(i) = {1, 2}
        /\ {"BTC_USD", "EUR_USD"} \subseteq DOMAIN log[i].rates.pairs
        /\ log[i].rates.pairs["BTC_USD"].updated_at = Stamp("Z", 2)
        /\ log[i].rates.pairs["EUR_USD"].updated_at = Stamp("Z", 1)
        /\ log[i].rates.pairs["EUR_USD"].source = "PlainClient"
        /\ log[i].res.report.last_refresh = Stamp("Z", 1)
        /\ log[i].rates.last_refresh = Stamp("Z", 1)

(***************************************************************************)
(* SpecHistory: DatabaseManager.append_history called directly with short  *)
(* lists of history entries.                                               *)
(***************************************************************************)
SampleEntries ==
    {HistoryEntry("BTC_USD", r, u, "manual") : r \in RateValues, u \in ZStamps}

EntryLists ==
    {<<>>} \cup {<<e>> : e \in SampleEntries}
    \cup {<<e, f>> : e \in SampleEntries, f \in SampleEntries}

AppendHistory(entries) ==
    /\ Len(log) <= MaxCalls
    /\ history' = append_history(history, entries)
    /\ log' = Append(log, Call("append_history", [entries |-> entries],
                               [raised |-> FALSE], rates, history'))
    /\ UNCHANGED <<rates, clock, fsvars, rsvars, sched, appvars>>

NextHistory == \E entries \in EntryLists : AppendHistory(entries)

SpecHistory == Init /\ [][NextHistory]_vars

\* the ids passed to append_history so far
AppendedIds ==
    UNION {IdsOf(log[i].arg.entries) :
             i \in {c \in Calls : log[c].op = "append_history"}}

\* C5: history id uniqueness.  No two history entries share an id, and the
\* history is as long as the set of ids appended so far.
HistoryIdsUnique ==
    /\ \A m \in DOMAIN history : \A n \in DOMAIN history :
           history[m].id = history[n].id => m = n
    /\ Len(history) = Cardinality(AppendedIds)

(***************************************************************************)
(* SpecClients: run_update over two clients configured to quote the same   *)
(* pair (BTC listed among the fiat codes of ExchangeRateApiClient as well  *)
(* as among the crypto codes of CoinGeckoClient).                          *)
(***************************************************************************)
\* ExchangeRateApiClient.fetch_rates when its currency list holds BTC
OverlapOutcomes(now) ==
    {Failure("ExchangeRateApiClient", "ExchangeRate-API key is missing")}
    \cup {Fetch("ExchangeRateApiClient", "ExchangeRate-API", r, t) :
            r \in RateMaps({"BTC_USD"}) \ {<<>>}, t \in 1..now}

OverlapRuns(now) ==
    {<<a, b>> : a \in CoinGeckoOutcomes(now), b \in OverlapOutcomes(now)}

NextClients ==
    \E now \in {clock, clock + 1} \cap (1..MaxTime) :
        \E outs \in OverlapRuns(now) : RunUpdate(now, outs)

SpecClients == Init /\ [][NextClients]_vars

\* C12: intra-run conflict.  For every pair returned in one run_update the
\* RatePoint in the combined map is the one of the last client, in
\* configured order, that returned the pair, whatever the timestamps of the
\* clients; it is the RatePoint write_snapshot is given, so a pair the
\* snapshot did not hold is stored with it.
ConflictLastWins ==
    \A i \in Calls : IsRun(i) =>
        \A k \in FetchedKeys(i) :
            LET v == Fetched_at(i, LastProvider(i, k), k)
            IN  /\ k \in DOMAIN log[i].res.locals.combined
                /\ log[i].res.locals.combined[k] = v
                /\ k \notin DOMAIN RatesBefore(i).pairs
                      => log[i].rates.pairs[k] = v

\* both clients returned BTC_USD, the first with the newer timestamp and
\* another rate; the second client's RatePoint was stored
ConflictWitness ==
    \E i \in Calls :
        /\ IsRun(i)
        /\ Succeeded(i) = {1, 2}
        /\ "BTC_USD" \in DOMAIN Outs(i)[1].rates
        /\ "BTC_USD" \in DOMAIN Outs(i)[2].rates
        /\ Outs(i)[1].rates["BTC_USD"] # Outs(i)[2].rates["BTC_USD"]
        /\ Outs(i)[1].meta.timestamp.t > Outs(i)[2].meta.timestamp.t
        /\ RatesBefore(i).pairs = <<>>
        /\ log[i].rates.pairs["BTC_USD"] = Fetched_at(i, 2, "BTC_USD")
        /\ log[i].rates.pairs["BTC_USD"].source = "ExchangeRate-API"

(***************************************************************************)
(* SpecLog: the history file under both of its writers, run_update with    *)
(* one client (update-rates --source) and append_history called directly.  *)
(***************************************************************************)
SingleSourceRuns(now) == {outs \in ClientRuns(now) : Len(outs) = 1}

LogEntryLists ==
    {l \in EntryLists : \A n \in DOMAIN l : l[n].rate = 1}

NextLog ==
    \/ \E entries \in LogEntryLists : AppendHistory(entries)
    \/ \E now \in {clock, clock + 1} \cap (1..MaxTime) :
           \E outs \in SingleSourceRuns(now) : RunUpdate(now, outs)

SpecLog == Init /\ [][NextLog]_vars

\* C13: the history is append-only.  After every append_history and every
\* run_update the history before the call is a prefix of the history after
\* it.
HistoryAppendOnly ==
    \A i \in Calls :
        /\ Len(HistoryBefore(i)) <= Len(log[i].history)
        /\ SubSeq(log[i].history, 1, Len(HistoryBefore(i))) = HistoryBefore(i)

\* an append_history call was given an entry whose id the history held with
\* another source, and a new one: the first stayed as it was, the second
\* was added
HistoryAppendOnlyWitness ==
    \E i \in Calls :
        /\ log[i].op = "append_history"
        /\ HistoryBefore(i) # <<>>
        /\ Len(log[i].history) = Len(HistoryBefore(i)) + 1
        /\ \E n \in DOMAIN log[i].arg.entries :
               /\ log[i].arg.entries[n].id = HistoryBefore(i)[1].id
               /\ log[i].arg.entries[n] # HistoryBefore(i)[1]
        /\ log[i].history[1] = HistoryBefore(i)[1]

(***************************************************************************)
(* SpecAtomic and SpecRace: write_snapshot and read_rates at the           *)
(* granularity of their file operations.  A writer runs write_snapshot:    *)
(* read_rates, the merge, then write_json_atomic (open the temporary file, *)
(* write the text, os.replace it over rates.json).  A reader runs          *)
(* read_rates: path.exists(), open, read and parse.                        *)
(***************************************************************************)
ConcPayloads ==
    {[k \in {"BTC_USD"} |-> RatePoint(1, Stamp("Z", 1), "manual")],
     [k \in {"EUR_USD"} |-> RatePoint(1, Stamp("Z", 1), "manual")],
     [k \in {"BTC_USD"} |-> RatePoint(2, Stamp("Z", 2), "manual")]}

CallsStarted == wloc["w1"].calls + wloc["w2"].calls

\* write_snapshot is entered with its payload
WBegin(w, pairs) ==
    /\ w \in active
    /\ wpc[w] \in {"idle", "done", "failed"}
    /\ CallsStarted < MaxCalls
    /\ wpc' = [wpc EXCEPT ![w] = "read"]
    /\ wloc' = [wloc EXCEPT ![w] = [pairs |-> pairs,
                                    last_refresh |-> Stamp("Z", 1),
                                    doc |-> EmptySnapshot, fd |-> 0,
                                    calls |-> @.calls + 1]]
    /\ UNCHANGED <<seqvars, rsvars, sched, appvars, dir, inode, active, rpc, rloc>>

\* current = self.db.read_rates(), then the merge loop; json.loads raises on
\* a text that is not a whole document
WRead(w) ==
    /\ wpc[w] = "read"
    /\ LET content == IF dir[RatesPath] = 0 THEN Full(EmptySnapshot)
                      ELSE inode[dir[RatesPath]]
       IN  IF content.state = "full"
           THEN /\ wloc' = [wloc EXCEPT ![w].doc =
                              write_snapshot(read_rates(content.doc),
                                             wloc[w].pairs, wloc[w].last_refresh)]
                /\ wpc' = [wpc EXCEPT ![w] = "open"]
           ELSE /\ wpc' = [wpc EXCEPT ![w] = "failed"]
                /\ UNCHANGED wloc
    /\ UNCHANGED <<seqvars, rsvars, sched, appvars, dir, inode, active, rpc, rloc>>

\* tmp.write_text opens tmp for writing: a new file, or the existing one
\* truncated
WOpen(w) ==
    /\ wpc[w] = "open"
    /\ LET t == tmp_of(RatesPath)
       IN  IF dir[t] = 0
           THEN /\ inode' = Append(inode, EmptyFile)
                /\ dir' = [dir EXCEPT ![t] = Len(inode) + 1]
                /\ wloc' = [wloc EXCEPT ![w].fd = Len(inode) + 1]
           ELSE /\ inode' = [inode EXCEPT ![dir[t]] = EmptyFile]
                /\ wloc' = [wloc EXCEPT ![w].fd = dir[t]]
                /\ UNCHANGED dir
    /\ wpc' = [wpc EXCEPT ![w] = "write"]
    /\ UNCHANGED <<seqvars, rsvars, sched, appvars, active, rpc, rloc>>

\* tmp.write_text writes the text at offset 0 of the file it opened; over
\* another text the result is this text or, if that one was longer, a mix
WWrite(w) ==
    /\ wpc[w] = "write"
    /\ LET old == inode[wloc[w].fd]
       IN  \E new \in IF old.state = "empty" \/ old = Full(wloc[w].doc)
                      THEN {Full(wloc[w].doc)}
                      ELSE {Full(wloc[w].doc), Garbled} :
               inode' = [inode EXCEPT ![wloc[w].fd] = new]
    /\ wpc' = [wpc EXCEPT ![w] = "replace"]
    /\ UNCHANGED <<seqvars, rsvars, sched, appvars, dir, active, wloc, rpc, rloc>>

\* os.replace(tmp, path): FileNotFoundError when tmp is gone, else path
\* names tmp's file from now on; write_snapshot returns
WReplace(w) ==
    /\ wpc[w] = "replace"
    /\ LET t == tmp_of(RatesPath)
       IN  IF dir[t] = 0
           THEN /\ wpc' = [wpc EXCEPT ![w] = "failed"]
                /\ UNCHANGED <<dir, rates, rloc>>
           ELSE /\ dir' = IF t = RatesPath THEN dir
                          ELSE [dir EXCEPT ![RatesPath] = dir[t], ![t] = 0]
                /\ wpc' = [wpc EXCEPT ![w] = "done"]
                /\ rates' = inode[dir[t]].doc
                /\ rloc' = [r \in Readers |->
                              IF rpc[r] \in {"open", "read"}
                              THEN [rloc[r] EXCEPT !.seen = @ \cup {inode[dir[t]].doc}]
                              ELSE rloc[r]]
    /\ UNCHANGED <<history, clock, log, rsvars, sched, appvars, inode, active, wloc, rpc>>

\* read_json: path.exists(); read_rates returns the empty snapshot for None
RExists(r) ==
    /\ rpc[r] \in {"idle", "done"}
    /\ IF dir[RatesPath] = 0
       THEN /\ rpc' = [rpc EXCEPT ![r] = "done"]
            /\ rloc' = [rloc EXCEPT ![r] = [fd |-> 0, obs |-> Full(EmptySnapshot),
                                            seen |-> {EmptySnapshot}]]
       ELSE /\ rpc' = [rpc EXCEPT ![r] = "open"]
            /\ rloc' = [rloc EXCEPT ![r] = [fd |-> 0, obs |-> EmptyFile,
                                            seen |-> {rates}]]
    /\ UNCHANGED <<seqvars, rsvars, sched, appvars, dir, inode, active, wpc, wloc>>

\* path.read_text opens the file the path names now
ROpen(r) ==
    /\ rpc[r] = "open"
    /\ rloc' = [rloc EXCEPT ![r].fd = dir[RatesPath]]
    /\ rpc' = [rpc EXCEPT ![r] = "read"]
    /\ UNCHANGED <<seqvars, rsvars, sched, appvars, dir, inode, active, wpc, wloc>>

\* path.read_text reads the opened file; json.loads parses what was read
RRead(r) ==
    /\ rpc[r] = "read"
    /\ rloc' = [rloc EXCEPT ![r].obs = inode[rloc[r].fd]]
    /\ rpc' = [rpc EXCEPT ![r] = "done"]
    /\ UNCHANGED <<seqvars, rsvars, sched, appvars, dir, inode, active, wpc, wloc>>

NextFiles ==
    \/ \E w \in Writers : \E pairs \in ConcPayloads : WBegin(w, pairs)
    \/ \E w \in Writers : WRead(w)
    \/ \E w \in Writers : WOpen(w)
    \/ \E w \in Writers : WWrite(w)
    \/ \E w \in Writers : WReplace(w)
    \/ \E r \in Readers : RExists(r)
    \/ \E r \in Readers : ROpen(r)
    \/ \E r \in Readers : RRead(r)

InitAtomic ==
    /\ rates = EmptySnapshot
    /\ history = <<>>
    /\ clock = 1
    /\ log = <<Start(rates, history)>>
    /\ active = {"w1"}
    /\ InitFiles
    /\ InitScheduler
    /\ InitApp
    /\ InitResolver

InitRace ==
    /\ rates = EmptySnapshot
    /\ history = <<>>
    /\ clock = 1
    /\ log = <<Start(rates, history)>>
    /\ active = Writers
    /\ InitFiles
    /\ InitScheduler
    /\ InitApp
    /\ InitResolver

\* one process writes, any reader reads
SpecAtomic == InitAtomic /\ [][NextFiles]_vars

\* two processes write
SpecRace == InitRace /\ [][NextFiles]_vars

\* C7: readers never see a partial snapshot.  With one writer, every
\* finished read_rates parsed a whole document, and that document is the
\* snapshot that was stored when the read began or one stored by a
\* write_json_atomic that completed during the read.
AtomicRead ==
    \A r \in Readers :
        rpc[r] = "done" =>
            /\ rloc[r].obs.state = "full"
            /\ rloc[r].obs.doc \in rloc[r].seen

\* a read that opened the file before os.replace and read it afterwards got
\* the old snapshot whole
AtomicReadWitness ==
    \E r \in Readers :
        /\ rpc[r] = "done"
        /\ Cardinality(rloc[r].seen) = 2
        /\ rloc[r].obs.state = "full"
        /\ rloc[r].obs.doc # rates
        /\ rloc[r].fd # dir[RatesPath]

\* what rates.json holds after the two calls in either serial order
SerialResults ==
    LET a == wloc["w1"]
        b == wloc["w2"]
    IN  {write_snapshot(write_snapshot(EmptySnapshot, a.pairs, a.last_refresh),
                        b.pairs, b.last_refresh),
         write_snapshot(write_snapshot(EmptySnapshot, b.pairs, b.last_refresh),
                        a.pairs, a.last_refresh)}

\* C8: no lost updates.  When two concurrent write_snapshot calls, one per
\* process, have both returned, rates.json holds the result of the two
\* merges in one of the two serial orders.
NoLostUpdate ==
    (\A w \in Writers : wpc[w] = "done" /\ wloc[w].calls = 1)
        => inode[dir[RatesPath]] \in {Full(d) : d \in SerialResults}

(***************************************************************************)
(* The rate resolver: CoreUseCases._get_pair_rate and get_rate.  A rate    *)
(* the resolver computes is a fraction n/d in lowest terms; a stored rate  *)
(* r is read as r/1.                                                       *)
(***************************************************************************)
\* codes of _REGISTRY the model asks about, USD being the bridge currency
Registry == {"USD", "EUR", "BTC"}

\* str.upper() on the codes of the model
upper(code) ==
    IF code = "usd" THEN "USD"
    ELSE IF code = "eur" THEN "EUR"
    ELSE IF code = "btc" THEN "BTC"
    ELSE code

\* validate_currency_code raises unless code.strip().upper() matches
\* ^[A-Z]{2,5}$
validate_currency_code(code) == upper(code) \in Registry \cup {"XXX"}

\* what callers pass: registry codes and a well-formed unknown code
Codes == Registry \cup {"XXX"}

\* get_currency raises CurrencyNotFoundError unless code.upper() is a key
\* of _REGISTRY
get_currency(code) == upper(code) \in Registry

\* f"{from_code.upper()}_{to_code.upper()}"
pair_key(from_code, to_code) == upper(from_code) \o "_" \o upper(to_code)

RECURSIVE Gcd(_, _)
Gcd(a, b) == IF b = 0 THEN a ELSE Gcd(b, a % b)

Frac(n, d) == IF n = 0 THEN [n |-> 0, d |-> 1]
              ELSE [n |-> n \div Gcd(n, d), d |-> d \div Gcd(n, d)]

\* float(item["rate"])
float(r) == Frac(r, 1)

\* a / b on floats, b # 0
Div(a, b) == Frac(a.n * b.d, a.d * b.n)

\* str(item["updated_at"])
str(u) == IF u.form = "null" THEN Stamp("bad", 0) ELSE u

\* a (rate, updated_at) result of _get_pair_rate after `lookups` calls of
\* self._cached_rates()
Found(rate, updated_at, lookups) ==
    [kind |-> "ok", rate |-> rate, updated_at |-> updated_at,
     lookups |-> lookups]

\* _get_pair_rate raising the exception `kind`
Raise(kind, lookups) ==
    [kind |-> kind, rate |-> float(0), updated_at |-> Null,
     lookups |-> lookups]

\* the if cascade with the reverse key tried before the direct one
Path_inverse_first(pairs, from_code, to_code) ==
    IF pair_key(to_code, from_code) \in DOMAIN pairs THEN "inverse"
    ELSE IF pair_key(from_code, to_code) \in DOMAIN pairs THEN "direct"
    ELSE IF from_code # "USD" /\ to_code # "USD" THEN "bridge"
    ELSE "none"

\* the if cascade with `or` in the bridge test: a pair with USD on one side
\* bridges too
Path_bridge_either(pairs, from_code, to_code) ==
    IF pair_key(from_code, to_code) \in DOMAIN pairs THEN "direct"
    ELSE IF pair_key(to_code, from_code) \in DOMAIN pairs THEN "inverse"
    ELSE IF from_code # "USD" \/ to_code # "USD" THEN "bridge"
    ELSE "none"

\* the if cascade of _get_pair_rate: which branch answers
Path(pairs, from_code, to_code) ==
    IF pair_key(from_code, to_code) \in DOMAIN pairs THEN "direct"
    ELSE IF pair_key(to_code, from_code) \in DOMAIN pairs THEN "inverse"
    ELSE IF from_code # "USD" /\ to_code # "USD" THEN "bridge"
    ELSE "none"

\* the reverse branch returning the stored rate itself
Inverse_not_inverted(item) ==
    IF item.rate = 0 THEN Raise("ApiRequestError", 1)
    ELSE Found(float(item.rate), str(item.updated_at), 1)

\* the reverse branch of _get_pair_rate
Inverse(item) ==
    IF item.rate = 0 THEN Raise("ApiRequestError", 1)
    ELSE Found(Div(float(1), float(item.rate)), str(item.updated_at), 1)

\* the bridge branch returning the timestamp of the to -> USD leg
Bridge_to_timestamp(a, b) ==
    IF a.kind # "ok" THEN Raise(a.kind, 1 + a.lookups)
    ELSE IF b.kind # "ok" THEN Raise(b.kind, 1 + a.lookups + b.lookups)
    ELSE IF b.rate.n = 0
         THEN Raise("ApiRequestError", 1 + a.lookups + b.lookups)
    ELSE Found(Div(a.rate, b.rate), b.updated_at, 1 + a.lookups + b.lookups)

\* the bridge branch of _get_pair_rate, from the results a and b of the two
\* recursive calls (b is not evaluated by the code when a raised)
Bridge(a, b) ==
    IF a.kind # "ok" THEN Raise(a.kind, 1 + a.lookups)
    ELSE IF b.kind # "ok" THEN Raise(b.kind, 1 + a.lookups + b.lookups)
    ELSE IF b.rate.n = 0
         THEN Raise("ApiRequestError", 1 + a.lookups + b.lookups)
    ELSE Found(Div(a.rate, b.rate), a.updated_at, 1 + a.lookups + b.lookups)

\* CoreUseCases._get_pair_rate against the pairs self._cached_rates() returns
RECURSIVE get_pair_rate(_, _, _)
get_pair_rate(pairs, from_code, to_code) ==
    IF ~validate_currency_code(from_code) \/ ~validate_currency_code(to_code)
    THEN Raise("ValueError", 0)
    ELSE IF ~get_currency(from_code) \/ ~get_currency(to_code)
    THEN Raise("CurrencyNotFoundError", 0)
    ELSE LET path == Path(pairs, from_code, to_code)
             leg(code) == get_pair_rate(pairs, code, "USD")
         IN  IF path = "direct"
             THEN LET item == pairs[pair_key(from_code, to_code)]
                  IN  Found(float(item.rate), str(item.updated_at), 1)
             ELSE IF path = "inverse"
             THEN Inverse(pairs[pair_key(to_code, from_code)])
             ELSE IF path = "bridge"
             THEN Bridge(leg(from_code), leg(to_code))
             ELSE Raise("ApiRequestError", 1)

\* the wrapped function with now - ts < ttl as its test
cached_rates_expire_early(c, store, now) ==
    IF c.has /\ now - c.ts < c.ttl
    THEN [val |-> c.val, cache |-> c, read |-> FALSE]
    ELSE [val |-> read_rates(store),
          cache |-> [ttl |-> c.ttl, has |-> TRUE, ts |-> now,
                     val |-> read_rates(store)],
          read |-> TRUE]

\* the wrapped function without its age test: a cached value never expires
cached_rates_never_expire(c, store, now) ==
    IF c.has
    THEN [val |-> c.val, cache |-> c, read |-> FALSE]
    ELSE [val |-> read_rates(store),
          cache |-> [ttl |-> c.ttl, has |-> TRUE, ts |-> now,
                     val |-> read_rates(store)],
          read |-> TRUE]

\* the wrapped function of make_ttl_cache, called at monotonic time `now`
\* over the stored document `store`
cached_rates(c, store, now) ==
    IF c.has /\ now - c.ts <= c.ttl
    THEN [val |-> c.val, cache |-> c, read |-> FALSE]
    ELSE [val |-> read_rates(store),
          cache |-> [ttl |-> c.ttl, has |-> TRUE, ts |-> now,
                     val |-> read_rates(store)],
          read |-> TRUE]

\* the except clauses of get_rate that swallow CurrencyNotFoundError too
Retries_not_found(kind) == kind \in {"ApiRequestError", "CurrencyNotFoundError"}

\* get_rate without its synchronize-and-retry
Retries_never(kind) == FALSE

\* the except clauses of get_rate: the errors of the first lookup that lead
\* to _try_refresh_rates and a second lookup
Retries(kind) == kind = "ApiRequestError"

\* the staleness test with the except branch leaving stale = False
is_stale_unparsed_fresh(updated_at, now, ttl) ==
    LET p == parse_dt(updated_at)
    IN  IF ~p.ok \/ ~p.aware THEN FALSE ELSE now - p.t > ttl

\* the staleness test of get_rate: datetime.now(UTC) - parse_dt(updated_at)
\* raises on a malformed string and on an offset-naive datetime
is_stale(updated_at, now, ttl) ==
    LET p == parse_dt(updated_at)
    IN  IF ~p.ok \/ ~p.aware THEN TRUE ELSE now - p.t > ttl

\* _try_refresh_rates without the assignment to self._cached_rates
try_refresh_rates_keep_cache(outs, now, cfg, c, store, hist) ==
    LET r == run_update(outs, iso_now_utc(now), store, hist)
    IN  IF r.raised
        THEN [raised |-> TRUE, rates |-> store, history |-> hist, cache |-> c]
        ELSE [raised |-> FALSE, rates |-> r.rates, history |-> r.history,
              cache |-> c]

\* CoreUseCases._try_refresh_rates over the outcomes `outs` of the two
\* clients: the files and the cache after it, and whether it raised
try_refresh_rates(outs, now, cfg, c, store, hist) ==
    LET r == run_update(outs, iso_now_utc(now), store, hist)
    IN  IF r.raised
        THEN [raised |-> TRUE, rates |-> store, history |-> hist, cache |-> c]
        ELSE [raised |-> FALSE, rates |-> r.rates, history |-> r.history,
              cache |-> build_rates_reader(rates_ttl_seconds(cfg))]

\* a get_rate call that ended in the exception `kind`
Failed(kind, first, second, runs, reads, store, hist, c) ==
    [raised |-> kind, rate |-> float(0), updated_at |-> Null,
     stale |-> FALSE, first |-> first, second |-> second, runs |-> runs,
     store_reads |-> reads, rates |-> store, history |-> hist, cache |-> c]

\* a get_rate call that returned
Returned(found, now, cfg, first, second, runs, reads, store, hist, c) ==
    [raised |-> "none", rate |-> found.rate, updated_at |-> found.updated_at,
     stale |-> is_stale(found.updated_at, now, rates_ttl_seconds(cfg)),
     first |-> first, second |-> second, runs |-> runs,
     store_reads |-> reads, rates |-> store, history |-> hist, cache |-> c]

\* no second lookup was made
NoLookup == [kind |-> "none", rate |-> float(0), updated_at |-> Null,
             lookups |-> 0, snapshot |-> EmptySnapshot, reads |-> 0]

\* one _get_pair_rate call at time `now`: its result, the snapshot it
\* resolved against, the cache after it and the Store reads it made
Lookup(c, store, now, from_code, to_code) ==
    LET got == cached_rates(c, store, now)
        res == get_pair_rate(got.val.pairs, from_code, to_code)
    IN  [kind |-> res.kind, rate |-> res.rate, updated_at |-> res.updated_at,
         lookups |-> res.lookups, snapshot |-> got.val,
         cache |-> IF res.lookups = 0 THEN c ELSE got.cache,
         reads |-> IF res.lookups > 0 /\ got.read THEN 1 ELSE 0]

Observed(l) ==
    [kind |-> l.kind, rate |-> l.rate, updated_at |-> l.updated_at,
     lookups |-> l.lookups, snapshot |-> l.snapshot, reads |-> l.reads]

\* get_rate after its retried lookup l2, made when the run f returned
AfterRetry(l2, f, l1, now, cfg) ==
    IF l2.kind = "ok"
    THEN Returned(l2, now, cfg, Observed(l1), Observed(l2), 1,
                  l1.reads + l2.reads, f.rates, f.history, l2.cache)
    ELSE Failed(l2.kind, Observed(l1), Observed(l2), 1, l1.reads + l2.reads,
                f.rates, f.history, l2.cache)

\* get_rate after _try_refresh_rates ended as f
AfterRefresh(f, l1, from_code, to_code, now, cfg, store, hist) ==
    IF f.raised
    THEN Failed("ApiRequestError", Observed(l1), NoLookup, 1, l1.reads, store,
                hist, l1.cache)
    ELSE AfterRetry(Lookup(f.cache, f.rates, now, from_code, to_code), f, l1,
                    now, cfg)

\* get_rate after its first lookup l1
AfterLookup(l1, from_code, to_code, now, outs, cfg, store, hist) ==
    IF l1.kind = "ok"
    THEN Returned(l1, now, cfg, Observed(l1), NoLookup, 0, l1.reads, store,
                  hist, l1.cache)
    ELSE IF ~Retries(l1.kind)
    THEN Failed(l1.kind, Observed(l1), NoLookup, 0, l1.reads, store, hist,
                l1.cache)
    ELSE AfterRefresh(try_refresh_rates(outs, now, cfg, l1.cache, store, hist),
                      l1, from_code, to_code, now, cfg, store, hist)

\* CoreUseCases.get_rate at time `now`; outs is what the two clients do if
\* _try_refresh_rates is reached
get_rate(from_code, to_code, now, outs, cfg, c, store, hist) ==
    AfterLookup(Lookup(c, store, now, from_code, to_code), from_code, to_code,
                now, outs, cfg, store, hist)

(***************************************************************************)
(* The valuation helper: CoreUseCases._convert_amount and show_portfolio's *)
(* loop over the wallets.                                                   *)
(***************************************************************************)
\* a * b on floats
Mul(a, b) == Frac(a.n * b.n, a.d * b.d)

\* the result of _convert_amount: the value returned or the exception
\* raised, the lookup made, the cache and the files after it
Converted(raised, value, l, c, store, hist) ==
    [raised |-> raised, value |-> value, lookup |-> l, cache |-> c,
     rates |-> store, history |-> hist]

\* _convert_amount that asks get_rate for the rate
convert_amount_via_get_rate(amount, from_code, to_code, now, outs, cfg, c, store, hist) ==
    IF upper(from_code) = upper(to_code)
    THEN Converted("none", float(amount), NoLookup, c, store, hist)
    ELSE LET g == get_rate(from_code, to_code, now, outs, cfg, c, store, hist)
         IN  Converted(g.raised,
                       IF g.raised = "none" THEN Mul(float(amount), g.rate)
                       ELSE float(0),
                       IF g.runs = 0 THEN g.first ELSE g.second,
                       g.cache, g.rates, g.history)

\* _convert_amount without its first two lines
convert_amount_no_shortcut(amount, from_code, to_code, now, outs, cfg, c, store, hist) ==
    LET l == Lookup(c, store, now, from_code, to_code)
    IN  IF l.kind = "ok"
        THEN Converted("none", Mul(float(amount), l.rate), Observed(l),
                       l.cache, store, hist)
        ELSE Converted(l.kind, float(0), Observed(l), l.cache, store, hist)

\* CoreUseCases._convert_amount at time `now`; outs and cfg are what a
\* Synchronizer run would meet, which _convert_amount never starts
convert_amount(amount, from_code, to_code, now, outs, cfg, c, store, hist) ==
    IF upper(from_code) = upper(to_code)
    THEN Converted("none", float(amount), NoLookup, c, store, hist)
    ELSE LET l == Lookup(c, store, now, from_code, to_code)
         IN  IF l.kind = "ok"
             THEN Converted("none", Mul(float(amount), l.rate), Observed(l),
                            l.cache, store, hist)
             ELSE Converted(l.kind, float(0), Observed(l), l.cache, store, hist)

\* sorted(wallets.items()) of a portfolio over the model's codes
SortedCodes(wallets) ==
    SelectSeq(<<"BTC", "EUR", "USD">>, LAMBDA code : code \in DOMAIN wallets)

\* the locals of show_portfolio before its loop
NoneValued(c, store, hist) ==
    [raised |-> "none", rows |-> <<>>, total |-> float(0), cache |-> c,
     rates |-> store, history |-> hist]

\* rows.append(...) and total += value for the wallet `code`, or the
\* exception of _convert_amount leaving the loop
AddRow(acc, v, code, balance) ==
    IF v.raised # "none"
    THEN [acc EXCEPT !.raised = v.raised, !.cache = v.cache,
                     !.rates = v.rates, !.history = v.history]
    ELSE [raised |-> "none",
          rows |-> Append(acc.rows, [code |-> code, balance |-> balance,
                                     value |-> v.value]),
          total |-> Frac(acc.total.n * v.value.d + v.value.n * acc.total.d,
                         acc.total.d * v.value.d),
          cache |-> v.cache, rates |-> v.rates, history |-> v.history]

\* one iteration of the loop of show_portfolio
ValueOne(acc, code, balance, base, now, outs, cfg) ==
    IF acc.raised # "none" THEN acc
    ELSE AddRow(acc,
                convert_amount(balance, code, base, now, outs, cfg, acc.cache,
                               acc.rates, acc.history),
                code, balance)

\* the locals of show_portfolio after the first n wallets
RECURSIVE Valued(_, _, _, _, _, _, _, _, _)
Valued(wallets, n, base, now, outs, cfg, c, store, hist) ==
    IF n = 0 THEN NoneValued(c, store, hist)
    ELSE ValueOne(Valued(wallets, n - 1, base, now, outs, cfg, c, store, hist),
                  SortedCodes(wallets)[n], wallets[SortedCodes(wallets)[n]],
                  base, now, outs, cfg)

\* CoreUseCases.show_portfolio for a user whose portfolio holds `wallets`
show_portfolio(wallets, base, now, outs, cfg, c, store, hist) ==
    IF ~validate_currency_code(base)
    THEN [NoneValued(c, store, hist) EXCEPT !.raised = "ValueError"]
    ELSE IF ~get_currency(base)
    THEN [NoneValued(c, store, hist) EXCEPT !.raised = "CurrencyNotFoundError"]
    ELSE Valued(wallets, Len(SortedCodes(wallets)), base, now, outs, cfg, c,
                store, hist)

(***************************************************************************)
(* SpecRates: one process calls get_rate again and again while update-rates*)
(* runs of another process change the Store.  The log keeps the call just  *)
(* made and the files it started from, until the caller has taken the      *)
(* result.                                                                 *)
(***************************************************************************)
ResolverKeys == {"BTC_USD", "EUR_USD", "USD_EUR", "BTC_EUR"}

\* RatePoints the Store may hold for key k when the resolver starts
ResolverPoints(k) ==
    IF k = "BTC_USD"
    THEN {RatePoint(2, Stamp("Z", 0), "CoinGecko"),
          RatePoint(0, Stamp("Z", 1), "CoinGecko")}
    ELSE IF k = "EUR_USD"
    THEN {RatePoint(4, Stamp("Z", 1), "ExchangeRate-API"),
          RatePoint(0, Stamp("Z", 1), "manual")}
    ELSE IF k = "USD_EUR"
    THEN {RatePoint(2, Stamp("bad", 0), "manual"),
          RatePoint(0, Stamp("Z", 1), "manual")}
    ELSE {RatePoint(1, Stamp("naive", 1), "manual")}

ResolverSnapshots ==
    {[pairs |-> p, last_refresh |-> Stamp("Z", 1)] :
        p \in UNION {{f \in [D -> UNION {ResolverPoints(k) : k \in D}] :
                        \A k \in D : f[k] \in ResolverPoints(k)}
                       : D \in SUBSET ResolverKeys}}

\* [tool.valutatrade] of pyproject.toml, the TTL in the model's seconds
Settings == {[rates_ttl_seconds |-> 1]}

\* what the two clients of _try_refresh_rates and of update-rates do at `now`
RefreshRuns(now) ==
    {outs \in ClientRuns(now) :
        /\ Len(outs) = 2
        /\ \A j \in DOMAIN outs : outs[j].ok =>
               /\ outs[j].rates # <<>>
               /\ \A k \in DOMAIN outs[j].rates : outs[j].rates[k] = 2
               /\ outs[j].meta.timestamp = isoformat_dt(now)}

\* update-rates runs of another process in which both clients returned
ExternalRuns(now) ==
    {outs \in RefreshRuns(now) : \A j \in DOMAIN outs : outs[j].ok}

InitRates ==
    /\ rates \in ResolverSnapshots
    /\ history = <<>>
    /\ clock = 1
    /\ log = <<Start(rates, history)>>
    /\ active = {}
    /\ InitFiles
    /\ InitScheduler
    /\ InitApp
    /\ settings \in Settings
    /\ cache = build_rates_reader(rates_ttl_seconds(settings))

GetRate(from_code, to_code, now, outs) ==
    /\ Len(log) = 1
    /\ LET r == get_rate(from_code, to_code, now, outs, settings, cache,
                         rates, history)
       IN  /\ rates' = r.rates
           /\ history' = r.history
           /\ cache' = r.cache
           /\ log' = <<Start(rates, history),
                       Call("get_rate",
                            [from_code |-> from_code, to_code |-> to_code,
                             now |-> now, ttl |-> rates_ttl_seconds(settings),
                             outs |-> IF r.runs > 0 THEN outs ELSE <<>>,
                             cache |-> cache],
                            [raised |-> r.raised, rate |-> r.rate,
                             updated_at |-> r.updated_at, stale |-> r.stale,
                             first |-> r.first, second |-> r.second,
                             runs |-> r.runs, store_reads |-> r.store_reads],
                            r.rates, r.history)>>
    /\ clock' = now
    /\ UNCHANGED <<fsvars, settings, sched, appvars>>

\* update-rates in another process: the resolver's cache is not told
ExternalUpdate(now, outs) ==
    /\ Len(log) = 1
    /\ LET last_refresh == iso_now_utc(now)
           r == run_update(outs, last_refresh, rates, history)
       IN  /\ rates' = r.rates
           /\ history' = r.history
           /\ log' = <<Start(rates, history),
                       Call("run_update",
                            [outs |-> outs, last_refresh |-> last_refresh],
                            [raised |-> r.raised, report |-> r.report,
                             locals |-> Fetched(outs, Len(outs), last_refresh)],
                            r.rates, r.history)>>
    /\ clock' = now
    /\ UNCHANGED <<fsvars, rsvars, sched, appvars>>

\* the caller has the result of the call; the log starts again
TakeResult ==
    /\ Len(log) > 1
    /\ log' = <<Start(rates, history)>>
    /\ UNCHANGED <<rates, history, clock, fsvars, rsvars, sched, appvars>>

\* TRUE when get_rate(from_code, to_code) at `now` reaches _try_refresh_rates
Refreshes(from_code, to_code, now) ==
    Retries(Lookup(cache, rates, now, from_code, to_code).kind)

NextRates ==
    \/ TakeResult
    \/ \E now \in {clock, clock + 1} \cap (1..MaxTime) :
           \/ \E outs \in ExternalRuns(now) : ExternalUpdate(now, outs)
           \/ \E from_code \in Codes, to_code \in Codes :
                  \E outs \in IF Refreshes(from_code, to_code, now)
                               THEN RefreshRuns(now) ELSE {<<>>} :
                      GetRate(from_code, to_code, now, outs)

SpecRates == InitRates /\ [][NextRates]_vars

(***************************************************************************)
(* Claims about get_rate, checked under SpecRates.                         *)
(***************************************************************************)
IsGet(i) == log[i].op = "get_rate"

\* the lookup whose outcome get_rate hands to its caller: the retried one
\* when a Synchronizer run was made, else the first
Answer(i) == IF log[i].res.runs = 0 THEN log[i].res.first
             ELSE log[i].res.second

\* C14: unknown currency.  get_rate with a well-formed code that is not in
\* the registry, as from or as to, raises CurrencyNotFoundError without a
\* call of the cached snapshot reader, without a Store read, without a
\* Synchronizer run or a second lookup, and leaves cache and files alone.
UnknownCurrency ==
    \A i \in Calls :
        (IsGet(i) /\ (log[i].arg.from_code \notin Registry
                        \/ log[i].arg.to_code \notin Registry)) =>
            /\ log[i].res.raised = "CurrencyNotFoundError"
            /\ log[i].res.first.lookups = 0
            /\ log[i].res.store_reads = 0
            /\ log[i].res.runs = 0
            /\ log[i].res.second.kind = "none"
            /\ cache = log[i].arg.cache
            /\ log[i].rates = RatesBefore(i)
            /\ log[i].history = HistoryBefore(i)

\* BTC -> XXX was asked of a resolver with an empty cache and a Store in
\* which BTC has no rate at all
UnknownCurrencyWitness ==
    \E i \in Calls :
        /\ IsGet(i)
        /\ log[i].arg.from_code = "BTC"
        /\ log[i].arg.to_code = "XXX"
        /\ ~log[i].arg.cache.has
        /\ RatesBefore(i).pairs = <<>>
        /\ log[i].res.raised = "CurrencyNotFoundError"
        /\ ~cache.has

\* the stored RatePoint the leg code -> USD of a bridge is resolved from
HasLeg(S, code) ==
    pair_key(code, "USD") \in DOMAIN S \/ pair_key("USD", code) \in DOMAIN S

LegPoint(S, code) ==
    IF pair_key(code, "USD") \in DOMAIN S THEN S[pair_key(code, "USD")]
    ELSE S[pair_key("USD", code)]

NoDirectNoInverse(S, from_code, to_code) ==
    /\ pair_key(from_code, to_code) \notin DOMAIN S
    /\ pair_key(to_code, from_code) \notin DOMAIN S

IsBridge(S, from_code, to_code) ==
    /\ from_code \in Registry \ {"USD"}
    /\ to_code \in Registry \ {"USD"}
    /\ NoDirectNoInverse(S, from_code, to_code)

\* TRUE when resolving from_code -> to_code against S by the inverse pair
\* or by a bridge takes a stored RatePoint whose rate is 0
UsesZero(S, from_code, to_code) ==
    /\ from_code \in Registry
    /\ to_code \in Registry
    /\ pair_key(from_code, to_code) \notin DOMAIN S
    /\ \/ /\ pair_key(to_code, from_code) \in DOMAIN S
          /\ S[pair_key(to_code, from_code)].rate = 0
       \/ /\ IsBridge(S, from_code, to_code)
          /\ HasLeg(S, from_code)
          /\ \/ LegPoint(S, from_code).rate = 0
             \/ HasLeg(S, to_code) /\ LegPoint(S, to_code).rate = 0

\* C15: zero stored rate.  A lookup of get_rate whose inverse or bridge
\* resolution takes a stored RatePoint with rate 0 fails with
\* ApiRequestError (SourceUnavailable): no rate is returned from that
\* snapshot.
ZeroStoredRate ==
    \A i \in Calls : IsGet(i) =>
        /\ UsesZero(log[i].res.first.snapshot.pairs, log[i].arg.from_code,
                    log[i].arg.to_code)
             => log[i].res.first.kind = "ApiRequestError"
        /\ (log[i].res.second.kind # "none"
              /\ UsesZero(log[i].res.second.snapshot.pairs,
                          log[i].arg.from_code, log[i].arg.to_code))
             => log[i].res.second.kind = "ApiRequestError"

\* the leg code -> USD has a value: a stored code_USD rate, or the inverse
\* of a stored USD_code rate that is not 0
LegResolves(S, code) ==
    /\ HasLeg(S, code)
    /\ pair_key(code, "USD") \notin DOMAIN S => LegPoint(S, code).rate # 0

\* that value as the fraction LegNum / LegDen
LegNum(S, code) ==
    IF pair_key(code, "USD") \in DOMAIN S THEN LegPoint(S, code).rate ELSE 1

LegDen(S, code) ==
    IF pair_key(code, "USD") \in DOMAIN S THEN 1 ELSE LegPoint(S, code).rate

\* C16: bridge correctness.  When neither code is USD, the snapshot holds
\* neither the pair nor its inverse, and both legs to USD have a value, the
\* to leg's not 0, get_rate returns rate(from -> USD) / rate(to -> USD) with
\* the updated_at of the stored RatePoint of the from -> USD leg.
BridgeCorrect ==
    \A i \in Calls : IsGet(i) =>
        LET S == Answer(i).snapshot.pairs
            f == log[i].arg.from_code
            t == log[i].arg.to_code
        IN  (/\ IsBridge(S, f, t)
             /\ LegResolves(S, f)
             /\ LegResolves(S, t)
             /\ LegNum(S, t) # 0) =>
                /\ log[i].res.raised = "none"
                /\ log[i].res.rate.d > 0
                /\ log[i].res.rate.n * (LegDen(S, f) * LegNum(S, t))
                     = log[i].res.rate.d * (LegNum(S, f) * LegDen(S, t))
                /\ log[i].res.updated_at = LegPoint(S, f).updated_at

\* BTC_USD = 2 and EUR_USD = 4 with different timestamps: BTC -> EUR is 1/2
\* with the timestamp of BTC_USD
BridgeWitness ==
    \E i \in Calls :
        /\ IsGet(i)
        /\ log[i].arg.from_code = "BTC"
        /\ log[i].arg.to_code = "EUR"
        /\ DOMAIN Answer(i).snapshot.pairs = {"BTC_USD", "EUR_USD"}
        /\ Answer(i).snapshot.pairs["BTC_USD"].rate = 2
        /\ Answer(i).snapshot.pairs["EUR_USD"].rate = 4
        /\ Answer(i).snapshot.pairs["BTC_USD"].updated_at
             # Answer(i).snapshot.pairs["EUR_USD"].updated_at
        /\ log[i].res.rate = [n |-> 1, d |-> 2]
        /\ log[i].res.updated_at = Answer(i).snapshot.pairs["BTC_USD"].updated_at

\* C17: inverse consistency.  When the snapshot holds A_B with rate r # 0
\* and not B_A, get_rate(B, A) returns 1/r with the updated_at of A_B.
InverseConsistent ==
    \A i \in Calls : IsGet(i) =>
        LET S == Answer(i).snapshot.pairs
            f == log[i].arg.from_code
            t == log[i].arg.to_code
        IN  (/\ f \in Registry /\ t \in Registry
             /\ pair_key(f, t) \notin DOMAIN S
             /\ pair_key(t, f) \in DOMAIN S
             /\ S[pair_key(t, f)].rate # 0) =>
                /\ log[i].res.raised = "none"
                /\ log[i].res.rate.d > 0
                /\ log[i].res.rate.n * S[pair_key(t, f)].rate = log[i].res.rate.d
                /\ log[i].res.updated_at = S[pair_key(t, f)].updated_at

\* only EUR_USD = 4 is stored: USD -> EUR is 1/4
InverseWitness ==
    \E i \in Calls :
        /\ IsGet(i)
        /\ log[i].arg.from_code = "USD"
        /\ log[i].arg.to_code = "EUR"
        /\ DOMAIN Answer(i).snapshot.pairs = {"EUR_USD"}
        /\ Answer(i).snapshot.pairs["EUR_USD"].rate = 4
        /\ log[i].res.rate = [n |-> 1, d |-> 4]
        /\ log[i].res.updated_at = Answer(i).snapshot.pairs["EUR_USD"].updated_at

\* C18: direct lookup precedence.  When the snapshot holds the pair asked
\* for, get_rate returns its rate and updated_at as stored, whatever the
\* inverse pair or a bridge would give.
DirectPrecedence ==
    \A i \in Calls : IsGet(i) =>
        LET S == Answer(i).snapshot.pairs
            f == log[i].arg.from_code
            t == log[i].arg.to_code
        IN  (f \in Registry /\ t \in Registry /\ pair_key(f, t) \in DOMAIN S) =>
                /\ log[i].res.raised = "none"
                /\ log[i].res.rate = [n |-> S[pair_key(f, t)].rate, d |-> 1]
                /\ log[i].res.updated_at = S[pair_key(f, t)].updated_at

\* BTC_EUR = 1 is stored next to BTC_USD = 2 and EUR_USD = 4, whose bridge
\* gives 1/2
DirectWitness ==
    \E i \in Calls :
        /\ IsGet(i)
        /\ log[i].arg.from_code = "BTC"
        /\ log[i].arg.to_code = "EUR"
        /\ {"BTC_EUR", "BTC_USD", "EUR_USD"}
             \subseteq DOMAIN Answer(i).snapshot.pairs
        /\ Answer(i).snapshot.pairs["BTC_USD"].rate = 2
        /\ Answer(i).snapshot.pairs["EUR_USD"].rate = 4
        /\ log[i].res.rate = [n |-> 1, d |-> 1]
        /\ log[i].res.updated_at = Answer(i).snapshot.pairs["BTC_EUR"].updated_at

OneRetry ==
    \A i \in Calls : IsGet(i) =>
        LET res == log[i].res
            run == run_update(log[i].arg.outs, iso_now_utc(log[i].arg.now),
                              RatesBefore(i), HistoryBefore(i))
        IN  /\ res.runs \in {0, 1}
            /\ res.runs = 1 <=> res.first.kind = "ApiRequestError"
            /\ res.runs = 0 =>
                  /\ res.second.kind = "none"
                  /\ log[i].rates = RatesBefore(i)
                  /\ log[i].history = HistoryBefore(i)
            /\ res.runs = 1 =>
                  /\ Len(log[i].arg.outs) = 2
                  /\ log[i].rates = run.rates
                  /\ log[i].history = run.history
                  /\ run.raised =>
                        /\ res.raised = "ApiRequestError"
                        /\ res.second.kind = "none"
                  /\ ~run.raised =>
                        /\ res.second.kind \in {"ok", "ApiRequestError"}
                        /\ res.second.snapshot = run.rates
                        /\ res.second.kind = "ok" =>
                              /\ res.raised = "none"
                              /\ res.rate = res.second.rate
                        /\ res.second.kind # "ok" =>
                              res.raised = "ApiRequestError"

\* no path for BTC -> USD; the one run wrote EUR_USD only, the retried
\* lookup found no path either and ApiRequestError went to the caller
OneRetryWitness ==
    \E i \in Calls :
        /\ IsGet(i)
        /\ log[i].arg.from_code = "BTC"
        /\ log[i].arg.to_code = "USD"
        /\ Path(log[i].res.first.snapshot.pairs, "BTC", "USD") = "none"
        /\ log[i].res.runs = 1
        /\ log[i].rates # RatesBefore(i)
        /\ Len(log[i].history) = Len(HistoryBefore(i)) + 1
        /\ log[i].res.second.kind = "ApiRequestError"
        /\ log[i].res.raised = "ApiRequestError"

(***************************************************************************)
(* SpecCache: the resolver's TTL cache over three seconds of monotonic     *)
(* time.  One process calls get_rate, update-rates runs of another process *)
(* change the Store behind the cache.                                      *)
(***************************************************************************)
CacheSnapshots ==
    {EmptySnapshot,
     [pairs |-> [k \in {"BTC_USD"} |-> RatePoint(1, Stamp("Z", 0), "CoinGecko")],
      last_refresh |-> Stamp("Z", 0)]}

\* rates_ttl_seconds of pyproject.toml: 0 is raised to a cache window of 1
CacheSettings == {[rates_ttl_seconds |-> 0], [rates_ttl_seconds |-> 1]}

CacheQueries == {<<"BTC", "USD">>, <<"EUR", "USD">>, <<"BTC", "EUR">>}

InitCache ==
    /\ rates \in CacheSnapshots
    /\ history = <<>>
    /\ clock = 0
    /\ log = <<Start(rates, history)>>
    /\ active = {}
    /\ InitFiles
    /\ InitScheduler
    /\ InitApp
    /\ settings \in CacheSettings
    /\ cache = build_rates_reader(rates_ttl_seconds(settings))

\* update-rates runs of another process at `now`, second 0 included: both
\* clients return their pair with the time of the run
CacheRuns(now) ==
    {<<Fetch("CoinGeckoClient", "CoinGecko", a, now),
       Fetch("ExchangeRateApiClient", "ExchangeRate-API", b, now)>> :
        a \in {r \in RateMaps({"BTC_USD"}) : r # <<>> /\ r["BTC_USD"] = 2},
        b \in {r \in RateMaps({"EUR_USD"}) : r # <<>> /\ r["EUR_USD"] = 2}}

NextCache ==
    \/ TakeResult
    \/ \E now \in {clock, clock + 1} \cap (0..MaxTime) :
           \/ \E outs \in CacheRuns(now) : ExternalUpdate(now, outs)
           \/ \E q \in CacheQueries :
                  \E outs \in IF Refreshes(q[1], q[2], now)
                               THEN RefreshRuns(now) ELSE {<<>>} :
                      GetRate(q[1], q[2], now, outs)

SpecCache == InitCache /\ [][NextCache]_vars

(***************************************************************************)
(* Claims about the TTL cache, checked under SpecCache.                    *)
(***************************************************************************)
\* the cache held a snapshot when call i began, read at most ttl ago
InWindow(i) ==
    /\ log[i].arg.cache.has
    /\ log[i].arg.now - log[i].arg.cache.ts <= log[i].arg.cache.ttl

\* C21 as stated: every lookup of a get_rate made within ttl seconds of the
\* cache's Store read, the retried lookup included, resolves against the
\* cached snapshot and reads nothing from the Store.
TtlCacheEveryLookup ==
    \A i \in Calls : (IsGet(i) /\ InWindow(i)) =>
        /\ log[i].res.first.lookups > 0 =>
              /\ log[i].res.first.reads = 0
              /\ log[i].res.first.snapshot = log[i].arg.cache.val
        /\ log[i].res.second.lookups > 0 =>
              /\ log[i].res.second.reads = 0
              /\ log[i].res.second.snapshot = log[i].arg.cache.val

\* C21: TTL cache.  The first lookup of a get_rate that reaches the snapshot
\* reader within ttl seconds (the cache's window, at least 1) of the cache's
\* Store read resolves against the cached snapshot, reads nothing from the
\* Store and leaves the window where it was; when the cache is empty or the
\* window has elapsed it reads the Store once, resolves against what it
\* read, and the window restarts at the time of the call.  A get_rate that
\* makes no Synchronizer run makes no other Store read.
TtlCache ==
    \A i \in Calls : (IsGet(i) /\ log[i].res.first.lookups > 0) =>
        LET c == log[i].arg.cache
            l == log[i].res.first
        IN  /\ InWindow(i) =>
                /\ l.reads = 0
                /\ l.snapshot = c.val
                /\ log[i].res.runs = 0 => cache = c
            /\ ~InWindow(i) =>
                /\ l.reads = 1
                /\ l.snapshot = RatesBefore(i)
                /\ log[i].res.runs = 0 =>
                      cache = [ttl |-> c.ttl, has |-> TRUE,
                               ts |-> log[i].arg.now, val |-> RatesBefore(i)]
            /\ log[i].res.runs = 0 => log[i].res.store_reads = l.reads

\* a lookup made exactly ttl seconds after the Store read resolved against
\* the cached snapshot while the Store held a newer one
TtlCacheWitness ==
    \E i \in Calls :
        /\ IsGet(i)
        /\ InWindow(i)
        /\ log[i].arg.now - log[i].arg.cache.ts = log[i].arg.cache.ttl
        /\ log[i].res.first.lookups > 0
        /\ log[i].res.first.reads = 0
        /\ log[i].arg.cache.val # RatesBefore(i)
        /\ log[i].res.first.snapshot = log[i].arg.cache.val
        /\ log[i].res.raised = "none"

\* the cache window of the process that made call i: max(1, rates_ttl_seconds)
Window(i) == Max(1, log[i].arg.ttl)

\* the Store before call i was last written more than the window ago (a run
\* is one step of the model, so last_refresh is the time of its write)
WrittenLongAgo(i) ==
    /\ RatesBefore(i).last_refresh.form = "Z"
    /\ log[i].arg.now - RatesBefore(i).last_refresh.t > Window(i)

\* C32: bounded cache age.  When the first lookup of a get_rate is answered
\* from the cached snapshot, the cache read that snapshot from the Store at
\* most max(1, ttl) seconds before the call; and when the Store was last
\* written more than max(1, ttl) seconds before the call, the lookup
\* resolves against the Store's snapshot, whoever wrote it.
BoundedCacheAge ==
    \A i \in Calls : (IsGet(i) /\ log[i].res.first.lookups > 0) =>
        LET c == log[i].arg.cache
            l == log[i].res.first
        IN  /\ l.reads = 0 =>
                /\ c.has
                /\ l.snapshot = c.val
                /\ log[i].arg.now - c.ts >= 0
                /\ log[i].arg.now - c.ts <= Window(i)
            /\ WrittenLongAgo(i) => l.snapshot = RatesBefore(i)

\* the cache held a snapshot from before an update-rates run of the same
\* second; two seconds later the lookup read the Store and saw the run's
\* snapshot
BoundedCacheAgeWitness ==
    \E i \in Calls :
        /\ IsGet(i)
        /\ log[i].res.first.lookups > 0
        /\ log[i].arg.cache.has
        /\ log[i].arg.cache.val # RatesBefore(i)
        /\ log[i].arg.cache.ts = RatesBefore(i).last_refresh.t
        /\ WrittenLongAgo(i)
        /\ log[i].res.first.reads = 1
        /\ log[i].res.first.snapshot = RatesBefore(i)
        /\ log[i].res.raised = "none"

\* the Synchronizer run that get_rate call i triggered, recomputed from the
\* files before the call and from what the clients did
RunOf(i) ==
    run_update(log[i].arg.outs, iso_now_utc(log[i].arg.now), RatesBefore(i),
               HistoryBefore(i))

\* C33: retry sees fresh data.  When get_rate triggers a Synchronizer run
\* that does not raise, the retried lookup reads the Store once and resolves
\* against the snapshot the run wrote, and the resolver is left with a cache
\* that holds that snapshot, read at the time of the call.
RetrySeesFresh ==
    \A i \in Calls : (IsGet(i) /\ log[i].res.runs = 1 /\ ~RunOf(i).raised) =>
        /\ log[i].rates = RunOf(i).rates
        /\ log[i].res.second.lookups > 0
        /\ log[i].res.second.reads = 1
        /\ log[i].res.second.snapshot = RunOf(i).rates
        /\ cache = [ttl |-> Window(i), has |-> TRUE, ts |-> log[i].arg.now,
                    val |-> RunOf(i).rates]

\* the first lookup failed on a cached snapshot still inside its window;
\* the run changed the Store and the retry resolved against the new snapshot
RetrySeesFreshWitness ==
    \E i \in Calls :
        /\ IsGet(i)
        /\ InWindow(i)
        /\ log[i].res.first.reads = 0
        /\ log[i].res.runs = 1
        /\ ~RunOf(i).raised
        /\ RunOf(i).rates # log[i].arg.cache.val
        /\ log[i].res.second.snapshot = log[i].rates
        /\ log[i].res.second.snapshot # log[i].res.first.snapshot
        /\ log[i].res.raised = "none"

(***************************************************************************)
(* The provider clients: CoinGeckoClient.fetch_rates and                   *)
(* ExchangeRateApiClient.fetch_rates from the HTTP response to the         *)
(* returned dict and last_meta.  A response is given by `arrived` (FALSE   *)
(* when requests.get raised), its status code and its JSON payload; rates  *)
(* are fractions, as in the resolver.                                      *)
(***************************************************************************)
BASE_CURRENCY == "USD"
CRYPTO_CURRENCIES == <<"BTC">>
CRYPTO_ID_MAP == [BTC |-> "bitcoin"]
FIAT_CURRENCIES == <<"EUR", "USD">>

\* str.lower() on the base currency code
lower(code) == IF code = "USD" THEN "usd" ELSE code

\* raise ApiRequestError(f"{source}: {text}") out of fetch_rates of `name`
ApiRequestError(name, source, text) ==
    Failure(name, [source |-> source, text |-> text])

\* the if cascade on resp.status_code: the exception raised, or ok for 200;
\* auth_branch tells whether the client tests for 401 and 403
StatusError(name, source, status, auth_branch) ==
    IF auth_branch /\ status \in {401, 403}
    THEN ApiRequestError(name, source, "401/403")
    ELSE IF status = 429
    THEN ApiRequestError(name, source, "429 Too Many Requests")
    ELSE IF 500 <= status /\ status <= 599
    THEN ApiRequestError(name, source, "server error")
    ELSE IF status # 200
    THEN ApiRequestError(name, source, "status=")
    ELSE [ok |-> TRUE]

\* the loop of CoinGeckoClient.fetch_rates over CRYPTO_CURRENCIES
RECURSIVE CoinGeckoOut(_, _)
CoinGeckoOut(data, n) ==
    IF n = 0 THEN <<>>
    ELSE LET out == CoinGeckoOut(data, n - 1)
             code == CRYPTO_CURRENCIES[n]
             coin_id == Get(CRYPTO_ID_MAP, code, "")
             key == pair_key(code, BASE_CURRENCY)
         IN  IF coin_id = "" THEN out
             ELSE IF coin_id \in DOMAIN data
                     /\ lower(BASE_CURRENCY) \in DOMAIN data[coin_id]
             THEN [k \in (DOMAIN out) \cup {key} |->
                     IF k = key THEN float(data[coin_id][lower(BASE_CURRENCY)])
                     ELSE out[k]]
             ELSE out

\* CoinGeckoClient.fetch_rates at second `now` on the response resp
CoinGeckoFetch(resp, now) ==
    IF ~resp.arrived
    THEN ApiRequestError("CoinGeckoClient", "CoinGecko", "network error")
    ELSE LET e == StatusError("CoinGeckoClient", "CoinGecko", resp.status, FALSE)
         IN  IF ~e.ok THEN e
             ELSE [client |-> "CoinGeckoClient", ok |-> TRUE, error |-> "",
                   rates |-> CoinGeckoOut(resp.data, Len(CRYPTO_CURRENCIES)),
                   meta |-> [source |-> "CoinGecko",
                             timestamp |-> isoformat_dt(now)]]

\* the loop of ExchangeRateApiClient.fetch_rates over FIAT_CURRENCIES
RECURSIVE ExchangeRateOut(_, _)
ExchangeRateOut(rates_in, n) ==
    IF n = 0 THEN <<>>
    ELSE LET out == ExchangeRateOut(rates_in, n - 1)
             code == FIAT_CURRENCIES[n]
             key == pair_key(code, BASE_CURRENCY)
         IN  IF code = BASE_CURRENCY THEN out
             ELSE IF code \notin DOMAIN rates_in THEN out
             ELSE IF rates_in[code] = 0 THEN out
             ELSE [k \in (DOMAIN out) \cup {key} |->
                     IF k = key THEN Div(float(1), float(rates_in[code]))
                     ELSE out[k]]

\* ExchangeRateApiClient.fetch_rates at second `now`; key is FALSE when
\* EXCHANGERATE_API_KEY is empty
ExchangeRateFetch(key, resp, now) ==
    IF ~key
    THEN ApiRequestError("ExchangeRateApiClient", "ExchangeRate-API",
                         "key is missing")
    ELSE IF ~resp.arrived
    THEN ApiRequestError("ExchangeRateApiClient", "ExchangeRate-API",
                         "network error")
    ELSE LET e == StatusError("ExchangeRateApiClient", "ExchangeRate-API",
                              resp.status, TRUE)
         IN  IF ~e.ok THEN e
             ELSE IF Get(resp.data, "result", "") # "success"
             THEN ApiRequestError("ExchangeRateApiClient", "ExchangeRate-API",
                                  "error")
             ELSE [client |-> "ExchangeRateApiClient", ok |-> TRUE,
                   error |-> "",
                   rates |-> ExchangeRateOut(Get(resp.data, "rates", <<>>),
                                             Len(FIAT_CURRENCIES)),
                   meta |-> [source |-> "ExchangeRate-API",
                             timestamp |->
                                 IF "time_last_update_utc" \in DOMAIN resp.data
                                 THEN isoformat_dt(resp.data.time_last_update_utc)
                                 ELSE isoformat_dt(now)]]

(***************************************************************************)
(* SpecFetch: fetch_rates of either client on any response of a small set. *)
(***************************************************************************)
Statuses == {200, 204, 401, 403, 404, 429, 500, 503, 599, 600}

Prices == {0, 1, 2}

NoResponse == [arrived |-> FALSE, status |-> 0, data |-> <<>>]

\* the JSON object CoinGecko answers with: coin id -> {"usd": price}
CoinGeckoData ==
    {<<>>} \cup {[c \in {"bitcoin"} |-> d] :
                   d \in {<<>>} \cup {[usd |-> v] : v \in Prices}}

CoinGeckoResponses ==
    {NoResponse}
    \cup {[arrived |-> TRUE, status |-> 200, data |-> d] : d \in CoinGeckoData}
    \cup {[arrived |-> TRUE, status |-> st,
           data |-> [c \in {"bitcoin"} |-> [usd |-> 1]]] :
             st \in Statuses \ {200}}

\* the JSON object ExchangeRate-API answers with
ExchangeRateData(now) ==
    {[result |-> "error"]}
    \cup {[result |-> "success", rates |-> r] :
            r \in UNION {[D -> Prices] : D \in SUBSET {"EUR"}}}
    \cup {[result |-> "success", rates |-> r, time_last_update_utc |-> t] :
            r \in UNION {[D -> Prices] : D \in SUBSET {"EUR"}}, t \in 1..now}

ExchangeRateResponses(now) ==
    {NoResponse}
    \cup {[arrived |-> TRUE, status |-> 200, data |-> d] :
            d \in ExchangeRateData(now)}
    \cup {[arrived |-> TRUE, status |-> st,
           data |-> [result |-> "success", rates |-> [c \in {"EUR"} |-> 1]]] :
             st \in Statuses \ {200}}

FetchCoinGecko(resp, now) ==
    /\ Len(log) = 1
    /\ log' = <<Start(rates, history),
                Call("fetch_rates",
                     [client |-> "CoinGeckoClient", key |-> TRUE, resp |-> resp,
                      now |-> now],
                     CoinGeckoFetch(resp, now), rates, history)>>
    /\ clock' = now
    /\ UNCHANGED <<rates, history, fsvars, rsvars, sched, appvars>>

FetchExchangeRate(key, resp, now) ==
    /\ Len(log) = 1
    /\ log' = <<Start(rates, history),
                Call("fetch_rates",
                     [client |-> "ExchangeRateApiClient", key |-> key,
                      resp |-> resp, now |-> now],
                     ExchangeRateFetch(key, resp, now), rates, history)>>
    /\ clock' = now
    /\ UNCHANGED <<rates, history, fsvars, rsvars, sched, appvars>>

NextFetch ==
    \/ TakeResult
    \/ \E now \in {clock, clock + 1} \cap (1..MaxTime) :
           \/ \E resp \in CoinGeckoResponses : FetchCoinGecko(resp, now)
           \/ \E key \in BOOLEAN, resp \in ExchangeRateResponses(now) :
                  FetchExchangeRate(key, resp, now)

SpecFetch == Init /\ [][NextFetch]_vars

(***************************************************************************)
(* Claims about fetch_rates, checked under SpecFetch.                      *)
(***************************************************************************)
IsFetch(i) == log[i].op = "fetch_rates"

\* the request of call i was sent and answered
Answered(i) == log[i].arg.key /\ log[i].arg.resp.arrived

\* the payload of call i holds the value 0 for a currency the client asks for
ZeroInPayload(i) ==
    LET data == log[i].arg.resp.data
    IN  IF log[i].arg.client = "CoinGeckoClient"
        THEN /\ "bitcoin" \in DOMAIN data
             /\ "usd" \in DOMAIN data["bitcoin"]
             /\ data["bitcoin"]["usd"] = 0
        ELSE /\ "result" \in DOMAIN data
             /\ data["result"] = "success"
             /\ "EUR" \in DOMAIN data["rates"]
             /\ data["rates"]["EUR"] = 0

\* C24: zero from the provider is a protocol error.  fetch_rates of either
\* client, answered with status 200 and a payload that holds the value 0 for
\* a requested currency, raises ApiRequestError and returns no rate map.
ProviderZeroIsError ==
    \A i \in Calls :
        (IsFetch(i) /\ Answered(i) /\ log[i].arg.resp.status = 200
            /\ ZeroInPayload(i))
        => ~log[i].res.ok

\* what the claim calls the failure that status code st yields
StatusClass(st) ==
    IF st = 429 THEN "429 Too Many Requests"
    ELSE IF st \in {401, 403} THEN "401/403"
    ELSE IF 500 <= st /\ st <= 599 THEN "server error"
    ELSE "status="

\* C26: status-code classification.  fetch_rates of either client, answered
\* with a status other than 200, raises ApiRequestError and returns no
\* rates, whatever the payload; the error is the rate-limit one for 429,
\* the authentication one for 401 and 403, the server-error one for 500 to
\* 599 and the generic one for any other status.
StatusClassified ==
    \A i \in Calls :
        (IsFetch(i) /\ Answered(i) /\ log[i].arg.resp.status # 200) =>
            /\ ~log[i].res.ok
            /\ log[i].res.rates = <<>>
            /\ log[i].res.error.text = StatusClass(log[i].arg.resp.status)

(***************************************************************************)
(* SpecProviders: run_update from the empty snapshot over the two clients, *)
(* each client's outcome being what its fetch_rates makes of the           *)
(* provider's response.                                                    *)
(***************************************************************************)
ProviderRuns(now) ==
    {<<CoinGeckoFetch(a, now), ExchangeRateFetch(TRUE, b, now)>> :
        a \in {r \in CoinGeckoResponses :
                 r.arrived /\ r.status \in {200, 429} /\ r.data # <<>>
                 /\ (r.status = 200 => r.data["bitcoin"] # <<>>)},
        b \in {r \in ExchangeRateResponses(now) :
                 /\ r.arrived /\ r.status \in {200, 500}
                 /\ "rates" \in DOMAIN r.data
                 /\ r.data["rates"] # <<>>
                 /\ "time_last_update_utc" \in DOMAIN r.data}}

NextProviders ==
    \E now \in {clock, clock + 1} \cap (1..MaxTime) :
        \E outs \in ProviderRuns(now) : RunUpdate(now, outs)

SpecProviders == Init /\ [][NextProviders]_vars

\* C25: positive-rate invariant.  After any sequence of run_update calls
\* from the empty snapshot every RatePoint of the snapshot and every
\* HistoryEntry has a rate greater than 0, whatever the providers returned.
PositiveRates ==
    /\ \A k \in DOMAIN rates.pairs : rates.pairs[k].rate.n > 0
    /\ \A n \in DOMAIN history : history[n].rate.n > 0

(***************************************************************************)
(* SpecScheduler: run_periodic(job, interval_seconds) with the             *)
(* Synchronizer as its job.  The loop is at "call" before job(), at "wait" *)
(* while job() runs, at "sleep" inside time.sleep(interval).  The job is a *)
(* run_update of one client; it returns or raises.                         *)
(***************************************************************************)
Intervals == {0, 1, 2}

\* run_periodic whose sleep is inside the try block: no sleep after a job
\* that raised
Sleeps_unless_raised(outcome) == outcome = "returned"

\* time.sleep(interval) follows the try statement however the job ended
Sleeps(outcome) == TRUE

\* run_periodic is called: interval = max(1, int(interval_seconds))
SchedStart(interval_seconds) ==
    /\ sched.pc = "off"
    /\ sched' = [sched EXCEPT !.pc = "call",
                              !.interval = Max(1, interval_seconds)]
    /\ UNCHANGED <<seqvars, fsvars, rsvars, appvars>>

\* job() is called
SchedCall ==
    /\ sched.pc = "call"
    /\ sched.runs <= MaxCalls
    /\ sched' = [sched EXCEPT !.pc = "wait",
                              !.in_progress = @ + 1,
                              !.runs = @ + 1,
                              !.started_at = clock,
                              !.prev_ended_at = sched.ended_at,
                              !.outcome = "none"]
    /\ UNCHANGED <<seqvars, fsvars, rsvars, appvars>>

\* the job in progress ends: run_update returns its report or raises
JobEnd(outs) ==
    /\ sched.in_progress > 0
    /\ LET r == run_update(outs, iso_now_utc(clock), rates, history)
       IN  /\ rates' = r.rates
           /\ history' = r.history
           /\ sched' = [sched EXCEPT !.in_progress = @ - 1,
                                     !.ended_at = clock,
                                     !.outcome = IF r.raised THEN "raised"
                                                 ELSE "returned"]
    /\ UNCHANGED <<clock, log, fsvars, rsvars, appvars>>

\* run_periodic without its except clause: an exception of job() leaves the
\* while loop and ends run_periodic
Continues_unless_raised(outcome) == outcome = "returned"

\* `except Exception` around job(): the loop goes on however the job ended
Continues(outcome) == TRUE

\* where the loop stands once job() is over
AfterJob(outcome) ==
    IF ~Continues(outcome) THEN "ended"
    ELSE IF Sleeps(outcome) THEN "sleep"
    ELSE "call"

\* job() has returned, or raised into the except clause, and the loop goes
\* on to time.sleep(interval)
SchedSleep ==
    /\ sched.pc = "wait"
    /\ sched.in_progress = 0
    /\ sched' = [sched EXCEPT !.pc = AfterJob(sched.outcome),
                              !.slept_at = clock,
                              !.slept = 0]
    /\ UNCHANGED <<seqvars, fsvars, rsvars, appvars>>

\* time.sleep(interval) returns, not before interval seconds have passed
SchedWake ==
    /\ sched.pc = "sleep"
    /\ clock >= sched.slept_at + sched.interval
    /\ sched' = [sched EXCEPT !.pc = "call"]
    /\ UNCHANGED <<seqvars, fsvars, rsvars, appvars>>

\* a second passes
Tick ==
    /\ clock < MaxTime
    /\ clock' = clock + 1
    /\ UNCHANGED <<rates, history, log, fsvars, rsvars, sched, appvars>>

NextScheduler ==
    \/ \E interval_seconds \in Intervals : SchedStart(interval_seconds)
    \/ SchedCall
    \/ \E outs \in SingleSourceRuns(clock) : JobEnd(outs)
    \/ SchedSleep
    \/ SchedWake
    \/ Tick

SpecScheduler == Init /\ [][NextScheduler]_vars

\* C27: scheduler runs do not overlap.  Under run_periodic at most one job
\* execution is in progress at any time; a job execution after the first
\* was started when the one before it had returned or raised, and not
\* before the interval (at least one second) had passed since.
NoOverlap ==
    /\ sched.in_progress <= 1
    /\ sched.pc \in {"off", "call", "sleep"} => sched.in_progress = 0
    /\ sched.runs >= 2 =>
          /\ sched.prev_ended_at >= 1
          /\ sched.interval >= 1
          /\ sched.started_at >= sched.prev_ended_at + sched.interval

\* the first job raised at second 1; the second job was started at second 2
\* and is in progress
NoOverlapWitness ==
    /\ sched.runs = 2
    /\ sched.pc = "wait"
    /\ sched.in_progress = 1
    /\ sched.prev_ended_at = 1
    /\ sched.started_at = 2
    /\ rates = EmptySnapshot

(***************************************************************************)
(* SpecSchedulerLive: run_periodic left running for ever.  The clock of    *)
(* the jobs stands still; the loop counts the seconds it has slept, and    *)
(* the count of runs stops at MaxCalls + 1.  Every job() call ends, time   *)
(* passes while the loop sleeps, and the loop takes its next statement     *)
(* when it can.                                                            *)
(***************************************************************************)
\* job() is called again
LiveCall ==
    /\ sched.pc = "call"
    /\ sched' = [sched EXCEPT !.pc = "wait",
                              !.in_progress = @ + 1,
                              !.runs = IF @ <= MaxCalls THEN @ + 1 ELSE @,
                              !.prev_outcome = sched.outcome,
                              !.outcome = "none"]
    /\ UNCHANGED <<seqvars, fsvars, rsvars, appvars>>

\* a second of time.sleep(interval) passes
LiveTick ==
    /\ sched.pc = "sleep"
    /\ sched.slept < sched.interval
    /\ sched' = [sched EXCEPT !.slept = @ + 1]
    /\ UNCHANGED <<seqvars, fsvars, rsvars, appvars>>

\* time.sleep(interval) returns
LiveWake ==
    /\ sched.pc = "sleep"
    /\ sched.slept >= sched.interval
    /\ sched' = [sched EXCEPT !.pc = "call"]
    /\ UNCHANGED <<seqvars, fsvars, rsvars, appvars>>

LiveJobEnd == \E outs \in SingleSourceRuns(clock) : JobEnd(outs)

NextLive ==
    \/ \E interval_seconds \in Intervals : SchedStart(interval_seconds)
    \/ LiveCall
    \/ LiveJobEnd
    \/ SchedSleep
    \/ LiveTick
    \/ LiveWake

SpecSchedulerLive ==
    /\ Init
    /\ [][NextLive]_vars
    /\ WF_vars(LiveCall)
    /\ WF_vars(LiveJobEnd)
    /\ WF_vars(SchedSleep)
    /\ WF_vars(LiveTick)
    /\ WF_vars(LiveWake)

\* C35: the scheduler survives a job failure.  Once run_periodic has been
\* called, a job execution is started again and again; in particular every
\* job execution that raised is followed by the start of another one.
SurvivesFailure ==
    /\ (sched.pc # "off") ~> (sched.in_progress = 1)
    /\ (sched.outcome = "raised")
          ~> (sched.in_progress = 1 /\ sched.prev_outcome = "raised")

\* two jobs have raised one after the other and the third is in progress
SurvivesFailureWitness ==
    /\ sched.runs = 3
    /\ sched.pc = "wait"
    /\ sched.in_progress = 1
    /\ sched.prev_outcome = "raised"
    /\ rates = EmptySnapshot

(***************************************************************************)
(* SpecValuation: one process calls get_rate, _convert_amount and          *)
(* show_portfolio while update-rates runs of another process change the    *)
(* Store.                                                                  *)
(***************************************************************************)
ValuationSnapshots ==
    {[pairs |-> p, last_refresh |-> Stamp("Z", 1)] :
        p \in {f \in UNION {[D -> {RatePoint(2, Stamp("Z", 1), "CoinGecko"),
                                  RatePoint(4, Stamp("Z", 1), "ExchangeRate-API")}]
                             : D \in SUBSET {"BTC_USD", "EUR_USD"}} :
                 /\ "BTC_USD" \in DOMAIN f => f["BTC_USD"].rate = 2
                 /\ "EUR_USD" \in DOMAIN f => f["EUR_USD"].rate = 4}}

\* the codes convert is called with: upper and lower case, and one that is
\* not in the registry
ValuationCodes == {"USD", "usd", "EUR", "BTC", "XXX"}

Amounts == {3}

\* the wallets of the portfolios show_portfolio meets
WalletSets ==
    {[code \in D |-> 3] : D \in {{}, {"USD"}, {"BTC", "USD"}, {"BTC", "EUR"}}}

InitValuation ==
    /\ rates \in ValuationSnapshots
    /\ history = <<>>
    /\ clock = 1
    /\ log = <<Start(rates, history)>>
    /\ active = {}
    /\ InitFiles
    /\ InitScheduler
    /\ InitApp
    /\ settings \in Settings
    /\ cache = build_rates_reader(rates_ttl_seconds(settings))

ConvertAmount(amount, from_code, to_code, now, outs) ==
    /\ Len(log) = 1
    /\ LET r == convert_amount(amount, from_code, to_code, now, outs, settings,
                               cache, rates, history)
       IN  /\ rates' = r.rates
           /\ history' = r.history
           /\ cache' = r.cache
           /\ log' = <<Start(rates, history),
                       Call("convert",
                            [amount |-> amount, from_code |-> from_code,
                             to_code |-> to_code, now |-> now, cache |-> cache],
                            [raised |-> r.raised, value |-> r.value,
                             lookup |-> r.lookup],
                            r.rates, r.history)>>
    /\ clock' = now
    /\ UNCHANGED <<fsvars, settings, sched, appvars>>

ShowPortfolio(wallets, base, now, outs) ==
    /\ Len(log) = 1
    /\ LET r == show_portfolio(wallets, base, now, outs, settings, cache, rates,
                               history)
       IN  /\ rates' = r.rates
           /\ history' = r.history
           /\ cache' = r.cache
           /\ log' = <<Start(rates, history),
                       Call("show_portfolio",
                            [wallets |-> wallets, base |-> base, now |-> now,
                             cache |-> cache],
                            [raised |-> r.raised, rows |-> r.rows,
                             total |-> r.total],
                            r.rates, r.history)>>
    /\ clock' = now
    /\ UNCHANGED <<fsvars, settings, sched, appvars>>

NextValuation ==
    \/ TakeResult
    \/ \E now \in {clock, clock + 1} \cap (1..MaxTime) :
           \/ \E outs \in ExternalRuns(now) : ExternalUpdate(now, outs)
           \/ \E q \in CacheQueries :
                  \E outs \in IF Refreshes(q[1], q[2], now)
                               THEN RefreshRuns(now) ELSE {<<>>} :
                      GetRate(q[1], q[2], now, outs)
           \/ \E amount \in Amounts, from_code \in ValuationCodes,
                 to_code \in ValuationCodes, outs \in ExternalRuns(now) :
                  ConvertAmount(amount, from_code, to_code, now, outs)
           \/ \E wallets \in WalletSets, base \in {"USD", "EUR", "XXX"},
                 outs \in ExternalRuns(now) :
                  ShowPortfolio(wallets, base, now, outs)

SpecValuation == InitValuation /\ [][NextValuation]_vars

(***************************************************************************)
(* Claims about the valuation helper, checked under SpecValuation.         *)
(***************************************************************************)
IsConvert(i) == log[i].op = "convert"

FilesUnchanged(i) ==
    /\ log[i].rates = RatesBefore(i)
    /\ log[i].history = HistoryBefore(i)

\* C28: read-only resolution.  A get_rate whose lookup resolves from the
\* current snapshot, every _convert_amount and every show_portfolio leaves
\* rates.json and the history file as they were; a call after which either
\* file differs is a run_update, or a get_rate that made its Synchronizer
\* run, and the files are then those of that run_update.
ReadOnlyResolution ==
    /\ rates = log[Len(log)].rates
    /\ history = log[Len(log)].history
    /\ \A i \in Calls :
          /\ (IsGet(i) /\ log[i].res.first.kind = "ok") => FilesUnchanged(i)
          /\ log[i].op \in {"convert", "show_portfolio"} => FilesUnchanged(i)
          /\ ~FilesUnchanged(i) =>
                /\ \/ IsRun(i)
                   \/ IsGet(i) /\ log[i].res.runs = 1
                /\ LET run == run_update(log[i].arg.outs,
                                         iso_now_utc(clock), RatesBefore(i),
                                         HistoryBefore(i))
                   IN  /\ log[i].rates = run.rates
                       /\ log[i].history = run.history

\* show_portfolio valued a BTC wallet in EUR by a bridge (3 * 2/4) and an
\* EUR wallet by the shortcut, after an update-rates run had written the
\* history: both files stayed as they were
ReadOnlyWitness ==
    \E i \in Calls :
        /\ log[i].op = "show_portfolio"
        /\ log[i].arg.base = "EUR"
        /\ DOMAIN log[i].arg.wallets = {"BTC", "EUR"}
        /\ log[i].res.raised = "none"
        /\ Len(log[i].res.rows) = 2
        /\ log[i].res.rows[1].value = [n |-> 3, d |-> 2]
        /\ rates = RatesBefore(i)
        /\ history = HistoryBefore(i)
        /\ history # <<>>

\* C29: valuation identity shortcut.  _convert_amount(amount, X, X), the
\* codes compared in upper case, returns amount as it is for any X, in the
\* registry or not, without a call of the snapshot reader, a Store read or a
\* lookup, and leaves the cache alone; for codes that differ it makes one
\* lookup of (from, to) and returns amount times the rate that lookup
\* resolved, or raises what the lookup raised.
ValuationIdentity ==
    \A i \in Calls : IsConvert(i) =>
        LET a == log[i].arg
            res == log[i].res
        IN  /\ upper(a.from_code) = upper(a.to_code) =>
                /\ res.raised = "none"
                /\ res.value = [n |-> a.amount, d |-> 1]
                /\ res.lookup.kind = "none"
                /\ res.lookup.lookups = 0
                /\ res.lookup.reads = 0
                /\ cache = a.cache
            /\ upper(a.from_code) # upper(a.to_code) =>
                /\ res.lookup.kind # "none"
                /\ res.lookup = Observed(Lookup(a.cache, RatesBefore(i), a.now,
                                                a.from_code, a.to_code))
                /\ res.lookup.kind = "ok" =>
                      /\ res.raised = "none"
                      /\ res.value.d > 0
                      /\ res.value.n * res.lookup.rate.d
                           = a.amount * res.lookup.rate.n * res.value.d
                /\ res.lookup.kind # "ok" => res.raised = res.lookup.kind

\* convert(3, "usd", "USD") returned 3 with an empty cache left empty
ValuationIdentityWitness ==
    \E i \in Calls :
        /\ IsConvert(i)
        /\ log[i].arg.from_code = "usd"
        /\ log[i].arg.to_code = "USD"
        /\ log[i].res.raised = "none"
        /\ log[i].res.value = [n |-> 3, d |-> 1]
        /\ ~log[i].arg.cache.has
        /\ ~cache.has

(***************************************************************************)
(* SpecRead: DatabaseManager.read_rates on a data directory in which       *)
(* rates.json is absent, holds a snapshot, or holds a JSON object without  *)
(* "pairs" or without "last_refresh".                                      *)
(***************************************************************************)
StoredObjects ==
    {[pairs |-> p, last_refresh |-> l] :
        p \in PairMaps, l \in {Null} \cup RefreshArgs}
    \cup {[pairs |-> p] : p \in PairMaps}
    \cup {[last_refresh |-> l] : l \in {Null} \cup RefreshArgs}
    \cup {<<>>}

InitRead ==
    /\ rates \in StoredObjects
    /\ history = <<>>
    /\ clock = 1
    /\ log = <<Start(rates, history)>>
    /\ active = {}
    /\ \E e \in {0, 1} :
           dir = [p \in {"rates.json", "rates.json.tmp"} |->
                    IF p = "rates.json" THEN e ELSE 0]
    /\ inode = <<Full(EmptySnapshot)>>
    /\ wpc = [w \in Writers |-> "idle"]
    /\ wloc = [w \in Writers |-> NoLocals]
    /\ rpc = [r \in Readers |-> "idle"]
    /\ rloc = [r \in Readers |-> NoRead]
    /\ InitScheduler
    /\ InitApp
    /\ InitResolver

ReadRates ==
    /\ Len(log) = 1
    /\ log' = <<Start(rates, history),
                Call("read_rates",
                     [exists |-> dir[RatesPath] # 0, doc |-> rates],
                     [raised |-> FALSE,
                      doc |-> read_rates(read_json(dir[RatesPath] # 0, rates))],
                     rates, history)>>
    /\ UNCHANGED <<rates, history, clock, fsvars, rsvars, sched, appvars>>

NextRead == ReadRates \/ TakeResult

SpecRead == InitRead /\ [][NextRead]_vars

\* C30: snapshot read never fails on first use.  read_rates returns the
\* empty snapshot {pairs: {}, last_refresh: null} when rates.json is absent;
\* what it returns always has a pairs map: the stored object itself when
\* that has one, and otherwise the stored object with pairs = {} added.
ReadNeverFails ==
    \A i \in Calls : log[i].op = "read_rates" =>
        LET stored == log[i].arg.doc
            got == log[i].res.doc
        IN  /\ ~log[i].res.raised
            /\ "pairs" \in DOMAIN got
            /\ ~log[i].arg.exists => got = EmptySnapshot
            /\ (log[i].arg.exists /\ "pairs" \in DOMAIN stored) => got = stored
            /\ (log[i].arg.exists /\ "pairs" \notin DOMAIN stored) =>
                  /\ got.pairs = <<>>
                  /\ \A k \in DOMAIN stored : k \in DOMAIN got /\ got[k] = stored[k]

\* rates.json holds {"last_refresh": ...} only: it was returned with
\* pairs = {} and its last_refresh
ReadNeverFailsWitness ==
    \E i \in Calls :
        /\ log[i].op = "read_rates"
        /\ log[i].arg.exists
        /\ DOMAIN log[i].arg.doc = {"last_refresh"}
        /\ log[i].arg.doc.last_refresh # Null
        /\ log[i].res.doc.pairs = <<>>
        /\ log[i].res.doc.last_refresh = log[i].arg.doc.last_refresh

(***************************************************************************)
(* SpecResolve: one _get_pair_rate call at a time, run frame by frame.  A  *)
(* frame is one activation of the method: its arguments, where it stands   *)
(* (enter: before the validation; leg_from / leg_to: inside the first or   *)
(* second recursive call; got_from / got_to: that call has returned) and   *)
(* the results of its recursive calls.                                     *)
(***************************************************************************)
NoResult == Raise("none", 0)

Frame(from_code, to_code) ==
    [from_code |-> from_code, to_code |-> to_code, pc |-> "enter",
     a |-> NoResult, b |-> NoResult]

\* keys rates.json may hold among the registry codes of the model, and the
\* stored rates tried for each
ResolveKeys ==
    {"BTC_USD", "USD_BTC", "EUR_USD", "USD_EUR", "BTC_EUR", "EUR_BTC"}

ResolvePoints(k) ==
    IF k \in {"BTC_USD", "EUR_USD"}
    THEN {RatePoint(r, Stamp("Z", 1), "manual") : r \in {0, 2}}
    ELSE {RatePoint(2, Stamp("Z", 1), "manual")}

ResolveSnapshots ==
    {[pairs |-> p, last_refresh |-> Stamp("Z", 1)] :
        p \in UNION {{f \in [D -> UNION {ResolvePoints(k) : k \in D}] :
                        \A k \in D : f[k] \in ResolvePoints(k)}
                       : D \in SUBSET ResolveKeys}}

\* what callers pass: registry codes in either case and an unknown code
ResolveCodes == {"USD", "usd", "EUR", "BTC", "XXX"}

InitResolve ==
    /\ rates \in ResolveSnapshots
    /\ history = <<>>
    /\ clock = 1
    /\ log = <<Start(rates, history)>>
    /\ active = {}
    /\ InitFiles
    /\ InitScheduler
    /\ InitResolver
    /\ InitApp

\* self._get_pair_rate(from_code, to_code) is called from outside
ResolveCall(from_code, to_code) ==
    /\ Len(log) = 1
    /\ stack.frames = <<>>
    /\ stack' = [frames |-> <<Frame(from_code, to_code)>>, steps |-> 0]
    /\ UNCHANGED <<seqvars, fsvars, rsvars, sched, users, portfolios, wallet>>

\* the running frame returns or raises `res`: into the frame below it, or
\* to the outside caller
ResolveReturn(res) ==
    LET n == Len(stack.frames)
        top == stack.frames[n]
    IN  IF n = 1
        THEN /\ stack' = [frames |-> <<>>, steps |-> stack.steps + 1]
             /\ log' = <<log[1],
                         Call("get_pair_rate",
                              [from_code |-> top.from_code,
                               to_code |-> top.to_code],
                              [kind |-> res.kind, rate |-> res.rate,
                               updated_at |-> res.updated_at,
                               lookups |-> res.lookups,
                               steps |-> stack.steps + 1],
                              rates, history)>>
        ELSE LET below == stack.frames[n - 1]
                 resumed == IF below.pc = "leg_from"
                            THEN [below EXCEPT !.pc = "got_from", !.a = res]
                            ELSE [below EXCEPT !.pc = "got_to", !.b = res]
             IN  /\ stack' = [frames |-> Append(SubSeq(stack.frames, 1, n - 2),
                                                resumed),
                              steps |-> stack.steps + 1]
                 /\ UNCHANGED log

\* the running frame calls self._get_pair_rate(code, "USD")
ResolveRecurse(code, pc) ==
    LET n == Len(stack.frames)
    IN  /\ n < MaxDepth
        /\ stack' = [frames |-> Append([stack.frames EXCEPT ![n].pc = pc],
                                       Frame(code, "USD")),
                     steps |-> stack.steps + 1]
        /\ UNCHANGED log

\* the running frame is at the top of the method: validation, the snapshot
\* from self._cached_rates(), then the if cascade up to the first recursive
\* call, a return or a raise
ResolveEnter ==
    LET top == stack.frames[Len(stack.frames)]
        got == cached_rates(cache, rates, clock)
        pairs == got.val.pairs
        path == Path(pairs, top.from_code, top.to_code)
    IN  /\ stack.frames # <<>>
        /\ top.pc = "enter"
        /\ IF ~validate_currency_code(top.from_code)
              \/ ~validate_currency_code(top.to_code)
           THEN ResolveReturn(Raise("ValueError", 0)) /\ UNCHANGED cache
           ELSE IF ~get_currency(top.from_code) \/ ~get_currency(top.to_code)
           THEN ResolveReturn(Raise("CurrencyNotFoundError", 0))
                /\ UNCHANGED cache
           ELSE /\ cache' = got.cache
                /\ IF path = "direct"
                   THEN LET item == pairs[pair_key(top.from_code, top.to_code)]
                        IN  ResolveReturn(Found(float(item.rate),
                                                str(item.updated_at), 1))
                   ELSE IF path = "inverse"
                   THEN ResolveReturn(
                            Inverse(pairs[pair_key(top.to_code, top.from_code)]))
                   ELSE IF path = "bridge"
                   THEN ResolveRecurse(top.from_code, "leg_from")
                   ELSE ResolveReturn(Raise("ApiRequestError", 1))
        /\ UNCHANGED <<rates, history, clock, fsvars, settings, sched, users,
                       portfolios, wallet>>

\* the first recursive call is over: its exception propagates, or the second
\* recursive call is made
ResolveGotFrom ==
    LET top == stack.frames[Len(stack.frames)]
    IN  /\ stack.frames # <<>>
        /\ top.pc = "got_from"
        /\ IF top.a.kind # "ok"
           THEN ResolveReturn(Bridge(top.a, NoResult))
           ELSE ResolveRecurse(top.to_code, "leg_to")
        /\ UNCHANGED <<rates, history, clock, fsvars, rsvars, sched, users,
                       portfolios, wallet>>

\* the second recursive call is over: r_from / r_to, or an exception
ResolveGotTo ==
    LET top == stack.frames[Len(stack.frames)]
    IN  /\ stack.frames # <<>>
        /\ top.pc = "got_to"
        /\ ResolveReturn(Bridge(top.a, top.b))
        /\ UNCHANGED <<rates, history, clock, fsvars, rsvars, sched, users,
                       portfolios, wallet>>

ResolveStep == ResolveEnter \/ ResolveGotFrom \/ ResolveGotTo

\* the caller has the result; the cache it leaves behind is kept
ResolveDone ==
    /\ Len(log) > 1
    /\ log' = <<Start(rates, history)>>
    /\ stack' = NoStack
    /\ UNCHANGED <<rates, history, clock, fsvars, rsvars, sched, users,
                   portfolios, wallet>>

NextResolve ==
    \/ \E from_code \in ResolveCodes, to_code \in ResolveCodes :
           ResolveCall(from_code, to_code)
    \/ ResolveEnter
    \/ ResolveGotFrom
    \/ ResolveGotTo
    \/ ResolveDone

SpecResolve == InitResolve /\ [][NextResolve]_vars

(***************************************************************************)
(* Claims about _get_pair_rate, checked under SpecResolve.                 *)
(***************************************************************************)
IsResolve(i) == log[i].op = "get_pair_rate"

\* C34: resolution terminates.  A _get_pair_rate call never has more than
\* two activations, the outer one and one recursive call whose target is
\* USD; while it runs it can always take its next step, and it is over, with
\* a result or an exception, after at most five steps: the one the method
\* computes from the snapshot.
ResolutionTerminates ==
    /\ Len(stack.frames) <= 2
    /\ stack.steps <= 5
    /\ Len(stack.frames) = 2 =>
          /\ stack.frames[2].to_code = "USD"
          /\ stack.frames[1].pc \in {"leg_from", "leg_to"}
    /\ stack.frames # <<>> => ENABLED ResolveStep
    /\ \A i \in Calls : IsResolve(i) =>
          /\ stack.frames = <<>>
          /\ log[i].res.steps = stack.steps
          /\ LET r == get_pair_rate(read_rates(RatesBefore(i)).pairs,
                                    log[i].arg.from_code, log[i].arg.to_code)
             IN  /\ log[i].res.kind = r.kind
                 /\ log[i].res.kind \in {"ok", "ValueError",
                                          "CurrencyNotFoundError",
                                          "ApiRequestError"}
                 /\ log[i].res.rate = r.rate
                 /\ log[i].res.updated_at = r.updated_at
                 /\ log[i].res.lookups = r.lookups

\* a bridged pair: both recursive calls were made, each answered at once,
\* and the call returned a rate after five steps
ResolutionWitness ==
    \E i \in Calls :
        /\ IsResolve(i)
        /\ log[i].arg.from_code = "BTC"
        /\ log[i].arg.to_code = "EUR"
        /\ log[i].res.kind = "ok"
        /\ log[i].res.lookups = 3
        /\ log[i].res.steps = 5

(***************************************************************************)
(* The Wallet object of core/models.py.  An amount or a balance is a       *)
(* Python value: a finite number (whole units in the model), the floats    *)
(* nan and inf, or something that is no number.                            *)
(***************************************************************************)
Num(v) == [kind |-> "num", v |-> v]
NaN == [kind |-> "nan", v |-> 0]
Inf == [kind |-> "inf", v |-> 0]
NotANumber == [kind |-> "str", v |-> 0]

\* a <= 0 on floats: False whenever a is nan, and for inf
LeZero(a) == a.kind = "num" /\ a.v <= 0

\* a < 0 on floats
LtZero(a) == a.kind = "num" /\ a.v < 0

\* a > b on floats: False whenever a or b is nan
Gt(a, b) ==
    IF a.kind = "nan" \/ b.kind = "nan" THEN FALSE
    ELSE IF a.kind = "inf" THEN b.kind # "inf"
    ELSE IF b.kind = "inf" THEN FALSE
    ELSE a.v > b.v

\* a + b on floats that are not negative infinity
Plus(a, b) ==
    IF a.kind = "nan" \/ b.kind = "nan" THEN NaN
    ELSE IF a.kind = "inf" \/ b.kind = "inf" THEN Inf
    ELSE Num(a.v + b.v)

\* a - b on floats, b not greater than a: inf - inf is nan
Minus(a, b) ==
    IF a.kind = "nan" \/ b.kind = "nan" THEN NaN
    ELSE IF a.kind = "inf" THEN (IF b.kind = "inf" THEN NaN ELSE Inf)
    ELSE Num(a.v - b.v)

\* ensure_float_positive(value, field): the exception it raises, or "none"
ensure_float_positive(value) ==
    IF value.kind = "str" THEN "TypeError"
    ELSE IF LeZero(value) THEN "ValueError"
    ELSE "none"

\* the balance setter: the exception it raises, or "none"
set_balance(value) ==
    IF value.kind = "str" THEN "TypeError"
    ELSE IF LtZero(value) THEN "ValueError"
    ELSE "none"

\* a Wallet method that raised `kind`, or returned with the balance `b`
WalletResult(kind, b) == [raised |-> kind, balance |-> b]

\* Wallet.deposit(amount) on a wallet whose balance is `balance`
deposit(balance, amount) ==
    IF ensure_float_positive(amount) # "none"
    THEN WalletResult(ensure_float_positive(amount), balance)
    ELSE IF set_balance(Plus(balance, amount)) # "none"
    THEN WalletResult(set_balance(Plus(balance, amount)), balance)
    ELSE WalletResult("none", Plus(balance, amount))

\* Wallet.withdraw(amount)
withdraw(balance, amount) ==
    IF ensure_float_positive(amount) # "none"
    THEN WalletResult(ensure_float_positive(amount), balance)
    ELSE IF Gt(amount, balance)
    THEN WalletResult("InsufficientFundsError", balance)
    ELSE IF set_balance(Minus(balance, amount)) # "none"
    THEN WalletResult(set_balance(Minus(balance, amount)), balance)
    ELSE WalletResult("none", Minus(balance, amount))

(***************************************************************************)
(* SpecWallet: deposit and withdraw called on one Wallet, with any amount. *)
(***************************************************************************)
WalletAmounts == {Num(v) : v \in -1..2} \cup {NaN, Inf, NotANumber}

\* Wallet("USD", b): __post_init__ has validated the code and the balance
InitWallet ==
    /\ rates = EmptySnapshot
    /\ history = <<>>
    /\ clock = 1
    /\ log = <<Start(rates, history)>>
    /\ active = {}
    /\ InitFiles
    /\ InitScheduler
    /\ InitResolver
    /\ stack = NoStack
    /\ users = <<>>
    /\ portfolios = <<>>
    /\ wallet \in {[currency_code |-> "USD", balance |-> Num(b)] : b \in 0..1}

\* the state after a Wallet method ended as r
WalletCall(op, amount, r) ==
    /\ Len(log) <= MaxCalls
    /\ r.balance.kind = "num" => r.balance.v <= MaxBalance
    /\ wallet' = [wallet EXCEPT !.balance = r.balance]
    /\ log' = Append(log, Call(op, [amount |-> amount, before |-> wallet.balance],
                               [raised |-> r.raised, balance |-> r.balance],
                               rates, history))
    /\ UNCHANGED <<rates, history, clock, fsvars, rsvars, sched, stack, users,
                   portfolios>>

Deposit(amount) == WalletCall("deposit", amount, deposit(wallet.balance, amount))

Withdraw(amount) ==
    WalletCall("withdraw", amount, withdraw(wallet.balance, amount))

NextWallet ==
    \E amount \in WalletAmounts : Deposit(amount) \/ Withdraw(amount)

SpecWallet == InitWallet /\ [][NextWallet]_vars

(***************************************************************************)
(* Claims about Wallet, checked under SpecWallet.                          *)
(***************************************************************************)
\* balance >= 0 on floats: False for nan
NonNegative(b) == b.kind = "inf" \/ (b.kind = "num" /\ b.v >= 0)

\* C36: the balance of a Wallet is never negative.  After every deposit and
\* withdraw call, successful or failing, balance >= 0 holds; a withdraw of
\* more than the balance raises InsufficientFundsError, a deposit or
\* withdraw of an amount <= 0 raises, and a call that raises leaves the
\* balance as it was.
BalanceNonNegative ==
    /\ NonNegative(wallet.balance)
    /\ \A i \in Calls : log[i].op \in {"deposit", "withdraw"} =>
          LET amount == log[i].arg.amount
              before == log[i].arg.before
          IN  /\ LeZero(amount) => log[i].res.raised # "none"
              /\ (log[i].op = "withdraw" /\ ~LeZero(amount)
                    /\ amount.kind # "str" /\ Gt(amount, before))
                    => log[i].res.raised = "InsufficientFundsError"
              /\ log[i].res.raised # "none" => log[i].res.balance = before

(***************************************************************************)
(* The portfolio side of the core: portfolios.json through                 *)
(* DatabaseManager, and CoreUseCases.buy / sell.  A stored portfolio is    *)
(* [user_id, wallets], wallets a map from currency code to balance.        *)
(***************************************************************************)
StoredPortfolio(user_id, wallets) == [user_id |-> user_id, wallets |-> wallets]

\* the position of user_id's first portfolio in the list, 0 when it has none
PortfolioIndex(ps, user_id) ==
    IF \E n \in DOMAIN ps : ps[n].user_id = user_id
    THEN CHOOSE n \in DOMAIN ps :
             /\ ps[n].user_id = user_id
             /\ \A k \in DOMAIN ps : ps[k].user_id = user_id => n <= k
    ELSE 0

\* DatabaseManager.get_portfolio
get_portfolio(ps, user_id) ==
    IF PortfolioIndex(ps, user_id) = 0 THEN None
    ELSE ps[PortfolioIndex(ps, user_id)]

\* DatabaseManager.upsert_portfolio: the list written to portfolios.json
upsert_portfolio(ps, portfolio) ==
    IF PortfolioIndex(ps, portfolio.user_id) = 0 THEN Append(ps, portfolio)
    ELSE [ps EXCEPT ![PortfolioIndex(ps, portfolio.user_id)] = portfolio]

\* CoreUseCases.load_portfolio: the wallets loaded and the list stored
\* after it, an empty portfolio having been upserted for a user without one
load_portfolio(ps, user_id) ==
    IF get_portfolio(ps, user_id) = None
    THEN [portfolios |-> upsert_portfolio(ps, StoredPortfolio(user_id, <<>>)),
          wallets |-> <<>>]
    ELSE [portfolios |-> ps, wallets |-> get_portfolio(ps, user_id).wallets]

\* portfolio.get_wallet(code) or portfolio.add_currency(code)
WithWallet(wallets, code) ==
    IF code \in DOMAIN wallets THEN wallets
    ELSE [k \in (DOMAIN wallets) \cup {code} |->
            IF k = code THEN Num(0) ELSE wallets[k]]

\* amount * rate on floats, rate a fraction the resolver returned
Times(amount, rate) ==
    IF amount.kind = "nan" THEN NaN
    ELSE IF amount.kind = "inf" THEN (IF rate.n = 0 THEN NaN ELSE Inf)
    ELSE Num((amount.v * rate.n) \div rate.d)

\* buy or sell ended: the exception or "none", the list in portfolios.json,
\* the resolver's cache and the rate used
Trade(raised, ps, c, rate) ==
    [raised |-> raised, portfolios |-> ps, cache |-> c, rate |-> rate]

\* save_portfolio(portfolio) and the return
Saved(ps, user_id, wallets, c, rate) ==
    Trade("none", upsert_portfolio(ps, StoredPortfolio(user_id, wallets)), c,
          rate)

\* buy with code == "USD": usd.deposit(amount)
BuyUsd(ld, user_id, amount, c, w) ==
    IF deposit(w["USD"], amount).raised # "none"
    THEN Trade(deposit(w["USD"], amount).raised, ld.portfolios, c, float(1))
    ELSE Saved(ld.portfolios, user_id,
               [w EXCEPT !["USD"] = deposit(w["USD"], amount).balance], c,
               float(1))

\* buy after usd.withdraw(cost_usd) returned: the wallet of code is fetched
\* or added, amount is deposited, the portfolio is saved
BuyDeposit(ld, user_id, code, amount, l, w) ==
    IF deposit(w[code], amount).raised # "none"
    THEN Trade(deposit(w[code], amount).raised, ld.portfolios, l.cache, l.rate)
    ELSE Saved(ld.portfolios, user_id,
               [w EXCEPT ![code] = deposit(w[code], amount).balance],
               l.cache, l.rate)

\* buy of another currency, l being the outcome of _get_pair_rate(code, "USD")
BuyOther(ld, user_id, code, amount, l, w) ==
    IF l.kind # "ok" THEN Trade(l.kind, ld.portfolios, l.cache, float(0))
    ELSE IF withdraw(w["USD"], Times(amount, l.rate)).raised # "none"
    THEN Trade(withdraw(w["USD"], Times(amount, l.rate)).raised,
               ld.portfolios, l.cache, l.rate)
    ELSE BuyDeposit(ld, user_id, code, amount, l,
                    WithWallet([w EXCEPT !["USD"] =
                                   withdraw(w["USD"],
                                            Times(amount, l.rate)).balance],
                               code))

\* buy once the portfolio is loaded as ld
BuyLoaded(ld, user_id, code, amount, c, store, now) ==
    IF code = "USD"
    THEN BuyUsd(ld, user_id, amount, c, WithWallet(ld.wallets, "USD"))
    ELSE BuyOther(ld, user_id, code, amount, Lookup(c, store, now, code, "USD"),
                  WithWallet(ld.wallets, "USD"))

\* CoreUseCases.buy(user_id, currency_code, amount)
buy(ps, c, store, now, user_id, currency_code, amount) ==
    IF ~validate_currency_code(currency_code)
    THEN Trade("ValueError", ps, c, float(0))
    ELSE IF ensure_float_positive(amount) # "none"
    THEN Trade(ensure_float_positive(amount), ps, c, float(0))
    ELSE IF ~get_currency(currency_code)
    THEN Trade("CurrencyNotFoundError", ps, c, float(0))
    ELSE BuyLoaded(load_portfolio(ps, user_id), user_id, upper(currency_code),
                   amount, c, store, now)

\* sell with code == "USD": usd.withdraw(amount)
SellUsd(ld, user_id, amount, c, w) ==
    IF withdraw(w["USD"], amount).raised # "none"
    THEN Trade(withdraw(w["USD"], amount).raised, ld.portfolios, c, float(1))
    ELSE Saved(ld.portfolios, user_id,
               [w EXCEPT !["USD"] = withdraw(w["USD"], amount).balance], c,
               float(1))

\* sell after w.withdraw(amount) returned: usd.deposit(proceeds), save
SellDeposit(ld, user_id, amount, l, w) ==
    IF deposit(w["USD"], Times(amount, l.rate)).raised # "none"
    THEN Trade(deposit(w["USD"], Times(amount, l.rate)).raised, ld.portfolios,
               l.cache, l.rate)
    ELSE Saved(ld.portfolios, user_id,
               [w EXCEPT !["USD"] =
                   deposit(w["USD"], Times(amount, l.rate)).balance],
               l.cache, l.rate)

\* sell of another currency, l being the outcome of
\* _get_pair_rate(code, "USD")
SellOther(ld, user_id, code, amount, l, w) ==
    IF l.kind # "ok" THEN Trade(l.kind, ld.portfolios, l.cache, float(0))
    ELSE IF withdraw(w[code], amount).raised # "none"
    THEN Trade(withdraw(w[code], amount).raised, ld.portfolios, l.cache,
               l.rate)
    ELSE SellDeposit(ld, user_id, amount, l,
                     [w EXCEPT ![code] = withdraw(w[code], amount).balance])

\* sell once the portfolio is loaded as ld
SellLoaded(ld, user_id, code, amount, c, store, now) ==
    IF code \notin DOMAIN ld.wallets
    THEN Trade("ValueError", ld.portfolios, c, float(0))
    ELSE IF code = "USD"
    THEN SellUsd(ld, user_id, amount, c, ld.wallets)
    ELSE SellOther(ld, user_id, code, amount,
                   Lookup(c, store, now, code, "USD"),
                   WithWallet(ld.wallets, "USD"))

\* CoreUseCases.sell(user_id, currency_code, amount)
sell(ps, c, store, now, user_id, currency_code, amount) ==
    IF ~validate_currency_code(currency_code)
    THEN Trade("ValueError", ps, c, float(0))
    ELSE IF ensure_float_positive(amount) # "none"
    THEN Trade(ensure_float_positive(amount), ps, c, float(0))
    ELSE IF ~get_currency(currency_code)
    THEN Trade("CurrencyNotFoundError", ps, c, float(0))
    ELSE SellLoaded(load_portfolio(ps, user_id), user_id, upper(currency_code),
                    amount, c, store, now)

(***************************************************************************)
(* SpecTrade: buy and sell called for user 1, with any currency code and   *)
(* amount, over a rates.json that may or may not price BTC.                *)
(***************************************************************************)
TradeSnapshots ==
    {EmptySnapshot,
     [pairs |-> [k \in {"BTC_USD"} |-> RatePoint(1, Stamp("Z", 1), "CoinGecko")],
      last_refresh |-> Stamp("Z", 1)],
     [pairs |-> [k \in {"BTC_USD"} |-> RatePoint(0, Stamp("Z", 1), "CoinGecko")],
      last_refresh |-> Stamp("Z", 1)],
     [pairs |-> [k \in {"USD_BTC"} |-> RatePoint(2, Stamp("Z", 1), "manual")],
      last_refresh |-> Stamp("Z", 1)]}

\* what portfolios.json holds at the start: nothing, or the portfolio of
\* user 1 as register and earlier trades left it
TradePortfolios ==
    {<<>>}
    \cup {<<StoredPortfolio(1, w)>> :
            w \in UNION {[D -> {Num(2)}] : D \in SUBSET {"USD", "BTC"}}}

TradeCodes == {"USD", "BTC", "XXX"}

TradeAmounts == {Num(0), Num(2), Num(4), NaN}

InitTrade ==
    /\ rates \in TradeSnapshots
    /\ history = <<>>
    /\ clock = 1
    /\ log = <<Start(rates, history)>>
    /\ active = {}
    /\ InitFiles
    /\ InitScheduler
    /\ InitResolver
    /\ stack = NoStack
    /\ users = <<>>
    /\ portfolios \in TradePortfolios
    /\ wallet = NoWallet

\* the state after buy or sell ended as r
TradeCall(op, user_id, currency_code, amount, r) ==
    /\ Len(log) <= MaxCalls
    /\ portfolios' = r.portfolios
    /\ cache' = r.cache
    /\ log' = Append(log, Call(op, [user_id |-> user_id,
                                    currency_code |-> currency_code,
                                    amount |-> amount, before |-> portfolios],
                               [raised |-> r.raised, rate |-> r.rate,
                                after |-> r.portfolios],
                               rates, history))
    /\ UNCHANGED <<rates, history, clock, fsvars, settings, sched, stack,
                   users, wallet>>

Buy(user_id, currency_code, amount) ==
    TradeCall("buy", user_id, currency_code, amount,
              buy(portfolios, cache, rates, clock, user_id, currency_code,
                  amount))

Sell(user_id, currency_code, amount) ==
    TradeCall("sell", user_id, currency_code, amount,
              sell(portfolios, cache, rates, clock, user_id, currency_code,
                   amount))

NextTrade ==
    \E currency_code \in TradeCodes, amount \in TradeAmounts :
        \/ Buy(1, currency_code, amount)
        \/ Sell(1, currency_code, amount)

SpecTrade == InitTrade /\ [][NextTrade]_vars

(***************************************************************************)
(* Claims about buy and sell, checked under SpecTrade.                     *)
(***************************************************************************)
IsTrade(i) == log[i].op \in {"buy", "sell"}

\* the stored balance of `code` for user_id, 0 when there is no such wallet
BalanceOf(ps, user_id, code) ==
    IF get_portfolio(ps, user_id) = None THEN Num(0)
    ELSE IF code \notin DOMAIN get_portfolio(ps, user_id).wallets THEN Num(0)
    ELSE get_portfolio(ps, user_id).wallets[code]

\* C37: a failed trade leaves the stored portfolio unchanged.  When buy or
\* sell raises, the portfolio stored for the user is what it was before the
\* call; when it returns, the stored USD balance has changed by amount *
\* rate and the stored balance of the currency by amount, the one down and
\* the other up (USD down for buy, up for sell).
FailedTradeUnchanged ==
    \A i \in Calls : IsTrade(i) =>
        LET a == log[i].arg
            code == upper(a.currency_code)
            usd0 == BalanceOf(a.before, a.user_id, "USD")
            cur0 == BalanceOf(a.before, a.user_id, code)
            usd1 == BalanceOf(log[i].res.after, a.user_id, "USD")
            cur1 == BalanceOf(log[i].res.after, a.user_id, code)
            cost == Times(a.amount, log[i].res.rate)
        IN  /\ log[i].res.raised # "none" =>
                get_portfolio(log[i].res.after, a.user_id)
                    = get_portfolio(a.before, a.user_id)
            /\ (log[i].res.raised = "none" /\ log[i].op = "buy") =>
                /\ usd1 = Minus(usd0, cost)
                /\ cur1 = Plus(cur0, a.amount)
            /\ (log[i].res.raised = "none" /\ log[i].op = "sell") =>
                /\ usd1 = Plus(usd0, cost)
                /\ cur1 = Minus(cur0, a.amount)

(***************************************************************************)
(* Users.  A username or password is the sequence of its characters; a     *)
(* stored user is the user_id and username of users.json (the salt, the    *)
(* hash and the registration date take no part in any lookup).             *)
(***************************************************************************)
Whitespace == {" "}

RECURSIVE lstrip(_)
lstrip(value) ==
    IF value # <<>> /\ Head(value) \in Whitespace THEN lstrip(Tail(value))
    ELSE value

RECURSIVE rstrip(_)
rstrip(value) ==
    IF value # <<>> /\ value[Len(value)] \in Whitespace
    THEN rstrip(SubSeq(value, 1, Len(value) - 1))
    ELSE value

\* str.strip()
strip(value) == rstrip(lstrip(value))

\* validate_non_empty returns (TRUE) unless value.strip() is empty
validate_non_empty(value) == strip(value) # <<>>

StoredUser(user_id, username) == [user_id |-> user_id, username |-> username]

\* DatabaseManager.find_user_by_username: the first stored user whose
\* username equals username.strip(), or None
find_user_by_username(us, username) ==
    IF \E i \in 1..Len(us) : us[i].username = strip(username)
    THEN us[CHOOSE i \in 1..Len(us) :
                /\ us[i].username = strip(username)
                /\ \A j \in 1..(i - 1) : us[j].username # strip(username)]
    ELSE None

\* DatabaseManager.next_user_id
next_user_id(us) ==
    IF us = <<>> THEN 1
    ELSE (CHOOSE n \in {us[i].user_id : i \in 1..Len(us)} :
              \A i \in 1..Len(us) : us[i].user_id <= n) + 1

\* DatabaseManager.append_user
append_user(us, user) == Append(us, user)

\* register ended: the exception or "none", users.json and portfolios.json
Registered(raised, us, ps) ==
    [raised |-> raised, users |-> us, portfolios |-> ps]

\* CoreUseCases.register(username, password)
register(us, ps, username, password) ==
    IF ~validate_non_empty(username) \/ ~validate_non_empty(password)
    THEN Registered("ValueError", us, ps)
    ELSE IF Len(password) < 4 THEN Registered("ValueError", us, ps)
    ELSE IF find_user_by_username(us, username) # None
    THEN Registered("ValueError", us, ps)
    ELSE Registered("none",
                    append_user(us, StoredUser(next_user_id(us), username)),
                    upsert_portfolio(ps, StoredPortfolio(next_user_id(us),
                                                         <<>>)))

(***************************************************************************)
(* SpecRegister: register called in sequence on empty users.json and       *)
(* portfolios.json.                                                        *)
(***************************************************************************)
Usernames ==
    {<<>>, <<" ">>, <<"a">>, <<" ", "a">>, <<"a", " ">>, <<"b">>}

Passwords == {<<>>, <<"p", "w", "d">>, <<"p", "w", "d", "1">>}

InitRegister ==
    /\ rates = EmptySnapshot
    /\ history = <<>>
    /\ clock = 1
    /\ log = <<Start(rates, history)>>
    /\ active = {}
    /\ InitFiles
    /\ InitScheduler
    /\ InitResolver
    /\ InitApp

\* the state after register ended as r
RegisterCall(username, password, r) ==
    /\ Len(log) <= MaxCalls
    /\ users' = r.users
    /\ portfolios' = r.portfolios
    /\ log' = Append(log, Call("register",
                               [username |-> username, password |-> password,
                                users |-> users, portfolios |-> portfolios],
                               [raised |-> r.raised, users |-> r.users,
                                portfolios |-> r.portfolios],
                               rates, history))
    /\ UNCHANGED <<rates, history, clock, fsvars, rsvars, sched, stack,
                   wallet>>

Register(username, password) ==
    RegisterCall(username, password,
                 register(users, portfolios, username, password))

NextRegister ==
    \E username \in Usernames, password \in Passwords :
        Register(username, password)

SpecRegister == InitRegister /\ [][NextRegister]_vars

(***************************************************************************)
(* Claims about register, checked under SpecRegister.                      *)
(***************************************************************************)
IsRegister(i) == log[i].op = "register"

\* TRUE when a stored user of us has this username
Taken(us, username) == \E i \in 1..Len(us) : us[i].username = username

\* C38: user uniqueness.  After any sequence of register calls no two
\* stored users share a username or a user_id; a register call with a
\* username that is already stored raises; and a register call that raises
\* leaves users.json and portfolios.json as they were.
UserUniqueness ==
    /\ \A i, j \in 1..Len(users) : i # j =>
            /\ users[i].username # users[j].username
            /\ users[i].user_id # users[j].user_id
    /\ \A i \in Calls : IsRegister(i) =>
            /\ Taken(log[i].arg.users, log[i].arg.username) =>
                    log[i].res.raised # "none"
            /\ log[i].res.raised # "none" =>
                    /\ log[i].res.users = log[i].arg.users
                    /\ log[i].res.portfolios = log[i].arg.portfolios

====
